---- MODULE Spec2Model ----
(***************************************************************************)
(* Kiruna: single-host docker orchestration daemon and watchdog.            *)
(* Model of Application (lib/Application.js), Service (lib/Service.js),     *)
(* Container (lib/Container.js) and the engine wrapper                      *)
(* (lib/DockerWrapper.js).                                                  *)
(***************************************************************************)
EXTENDS Integers, Sequences, FiniteSets, TLC

VARIABLES
  config,    \* the expanded manifest: config.Services
  build,     \* _buildServices and linkDependencies: list, sortedList, dependencies
  svc,       \* per Service: containers, recentFailures, launched, workQueue
  runners,   \* the Container objects (one per watched docker container)
  docker,    \* the containers the docker daemon holds
  images,    \* the services whose image is available locally
  dq,        \* dockerQueue of DockerWrapper: pending engine calls, FIFO
  joins,     \* pending async.each calls: callbacks still to come
  app,       \* Application.launch: position in the pull / launch pipeline
  trace,     \* what the last step issued, executed and emitted
  crashed,   \* an exception left a callback: the process is gone
  server,    \* Server (server.js): application, state.updating, workQueue
  env        \* what the surroundings may still do (kills, probe answers)

vars == <<config, build, svc, runners, docker, images, dq, joins, app, trace, crashed, server, env>>

sysvars == <<svc, runners, docker, images, dq, joins, app, trace, crashed, server, env>>

(***************************************************************************)
(* Bounds                                                                  *)
(***************************************************************************)
\* largest number of entries under "Services" in a manifest of SpecBuild
MaxServices == 4

(***************************************************************************)
(* Generic helpers                                                         *)
(***************************************************************************)
Range(seq) == {seq[i] : i \in 1..Len(seq)}

IndexOf(seq, x) == IF x \in Range(seq) THEN CHOOSE i \in 1..Len(seq) : seq[i] = x /\ \A j \in 1..(i-1) : seq[j] # x ELSE 0

(***************************************************************************)
(* Server (server.js).  Applications are numbered in the order in which    *)
(* buildApplication constructs them; 0 stands for undefined.               *)
(***************************************************************************)
\* a Server whose workQueue has not been given a task yet
IdleServer == [application |-> 0, updating |-> FALSE, tasks |-> 0, workers |-> 0, built |-> 0, old |-> 0, launching |-> {}]

\* the Server inside the first _onConfigChanged: buildApplication has returned
\* the first Application and application.launch is about to be called
FirstLaunch == [application |-> 0, updating |-> TRUE, tasks |-> 0, workers |-> 1, built |-> 1, old |-> 0, launching |-> {1}]

(***************************************************************************)
(* Manifest: config.Services maps a service name to its options.  Names in  *)
(* SpecBuild are 1..n, in the key order of the JSON object.                 *)
(***************************************************************************)
ServiceNames(cfg) == DOMAIN cfg

\* a service that depends on nothing
dependsOn_Never(cfg, name, otherServiceName) == FALSE

\* Service.prototype.dependsOn
dependsOn(cfg, name, otherServiceName) == otherServiceName \in cfg[name].Dependencies

\* hasDependsOn(first, list) inside _buildServices
hasDependsOn(cfg, first, list) == \E i \in 1..Len(list) : dependsOn(cfg, first, list[i])

\* list = _.map(_.keys(ServicesCfg), ...): one Service per key, in key order
KeysOf(cfg) == [i \in 1..Cardinality(DOMAIN cfg) |-> i]

BuildStart(cfg) == [list |-> KeysOf(cfg), sortedList |-> <<>>, iterations |-> 0, maxIterations |-> 2 * Cardinality(DOMAIN cfg), dependencies |-> [s \in {} |-> {}], linked |-> 0, pc |-> IF Cardinality(DOMAIN cfg) = 0 THEN "built" ELSE "sort"]

\* the cap test of the loop: iterations > maxIterations
CapExceeded(b) == b.iterations > b.maxIterations

\* one iteration of the while loop of _buildServices
SortIteration(cfg, b) ==
  LET b1 == [b EXCEPT !.iterations = @ + 1]
      first == Head(b.list)
      rest == Tail(b.list)
  IN IF CapExceeded(b1) THEN [b1 EXCEPT !.pc = "throw"]
     ELSE IF hasDependsOn(cfg, first, rest)
          THEN [b1 EXCEPT !.list = Append(rest, first)]
          ELSE [b1 EXCEPT !.list = rest, !.sortedList = Append(b.sortedList, first), !.pc = IF rest = <<>> THEN "link" ELSE "sort"]

\* Service.prototype.linkDependencies of the service at position b.linked + 1:
\* every direct dependency plus the already linked dependencies of it
LinkOne(cfg, b) ==
  LET s == b.sortedList[b.linked + 1]
      direct == cfg[s].Dependencies
      \* service.dependencies of a dependency: set when it was linked earlier;
      \* a service that names itself adds only what it has collected so far
      depsOf(d) == IF d \in DOMAIN b.dependencies THEN b.dependencies[d] ELSE {}
      all == direct \cup UNION {depsOf(d) : d \in direct}
  IN [b EXCEPT !.dependencies = [x \in (DOMAIN b.dependencies) \cup {s} |-> IF x = s THEN all ELSE b.dependencies[x]],
               !.linked = @ + 1,
               !.pc = IF b.linked + 1 = Len(b.sortedList) THEN "built" ELSE "link"]

(***************************************************************************)
(* SpecBuild: construction of an Application from a manifest                *)
(***************************************************************************)
Manifests(n) == [1..n -> [Dependencies : SUBSET (1..n), Scale : {1}, HardDeploy : {FALSE}]]

InitBuild ==
  /\ config \in UNION {Manifests(n) : n \in 0..MaxServices}
  /\ build = BuildStart(config)
  /\ svc = <<>> /\ runners = <<>> /\ docker = {} /\ images = {} /\ dq = <<>>
  /\ joins = <<>> /\ app = [pc |-> "new", idx |-> 0] /\ trace = <<>> /\ crashed = FALSE
  /\ server = FirstLaunch
  /\ env = [kills |-> 0, probes |-> "healthy", errors |-> 0]

SortStep ==
  /\ build.pc = "sort"
  /\ build' = SortIteration(config, build)
  /\ UNCHANGED <<config, sysvars>>

LinkStep ==
  /\ build.pc = "link"
  /\ build.linked < Len(build.sortedList)
  /\ build' = LinkOne(config, build)
  /\ UNCHANGED <<config, sysvars>>

NextBuild == SortStep \/ LinkStep

SpecBuild == InitBuild /\ [][NextBuild]_vars

(***************************************************************************)
(* Program constants                                                       *)
(***************************************************************************)
CONTAINER_POSTFIX == <<"_", "k", "i", "r">>

CONTAINER_NAME_REGEX == {"-", ":", "/", "."}

MAX_FAILURES == 20

MAX_HEALTH_FAILURES == 4

LOW_WATCH_TIMEOUT == 250

WATCH_TIMEOUT == 15000

(***************************************************************************)
(* Text: container names are sequences of one-character strings            *)
(***************************************************************************)
\* String.prototype.indexOf(needle) >= 0
Contains(hay, needle) == \E i \in 1..(Len(hay) - Len(needle) + 1) : SubSeq(hay, i, i + Len(needle) - 1) = needle

\* number of occurrences of character ch
CountChar(str, ch) == Cardinality({i \in 1..Len(str) : str[i] = ch})

\* String.prototype.replace(CONTAINER_NAME_REGEX, '_')
ReplaceNameChars(str) == [i \in 1..Len(str) |-> IF str[i] \in CONTAINER_NAME_REGEX THEN "_" ELSE str[i]]

\* decimal text of a replica index
IndexText(index) == << <<"0">>, <<"1">>, <<"2">>, <<"3">>, <<"4">>, <<"5">>, <<"6">>, <<"7">>, <<"8">>, <<"9">> >>[index + 1]

\* Service.prototype._createContainerName, for the hash of the options given
CreateContainerNameFor(cfg, s, hash, index, includeIndex) ==
  LET prefix == ReplaceNameChars(cfg[s].Key \o <<"-">> \o hash) \o <<"_", "_">>
  IN IF includeIndex THEN prefix \o IndexText(index) \o CONTAINER_POSTFIX ELSE prefix

\* Service.prototype._createContainerName: the hash is that of the current options
createContainerName(cfg, s, index, includeIndex) == CreateContainerNameFor(cfg, s, cfg[s].Hash, index, includeIndex)

\* data.Name and Names[0] as docker reports them: a leading slash
DockerName(name) == <<"/">> \o name

(***************************************************************************)
(* The docker daemon: containers are records [Id, Name, Running, Links];    *)
(* Links holds the further names the daemon lists for a container          *)
(***************************************************************************)
NoData == [Id |-> 0, Name |-> <<>>, Running |-> FALSE, Links |-> <<>>]

ByName(name) == [by |-> "name", v |-> name]

ById(id) == [by |-> "id", v |-> id]

\* docker.getContainer(idOrName): the containers a reference resolves to
Lookup(dk, ref) == {c \in dk : IF ref.by = "name" THEN c.Name = ref.v ELSE c.Id = ref.v}

Found(dk, ref) == Lookup(dk, ref) # {}

TheContainer(dk, ref) == CHOOSE c \in Lookup(dk, ref) : TRUE

\* _extendError: statusCode 404 becomes noSuchContainer, any other error stays
ErrNone == "none"

ErrNoSuch == "noSuchContainer"

ErrOther == "error"

\* the daemon drops the names that containers had as link targets of the
\* removed container c
Unlinked(dk, c) ==
  LET parent == DockerName(c.Name) \o <<"/">>
  IN {[d EXCEPT !.Links = SelectSeq(@, LAMBDA n : SubSeq(n, 1, Len(parent)) # parent)] : d \in dk}

\* outcome of one engine call on the containers dk: [dk, err, data]
\* fresh is the Id the daemon gives to a container it creates
DockerExec(dk, op, ref, fresh, fail) ==
  IF fail THEN [dk |-> dk, err |-> ErrOther, data |-> NoData]
  ELSE CASE op = "inspect" ->
              IF Found(dk, ref) THEN [dk |-> dk, err |-> ErrNone, data |-> TheContainer(dk, ref)]
              ELSE [dk |-> dk, err |-> ErrNoSuch, data |-> NoData]
         [] op = "create" ->
              IF Found(dk, ref) THEN [dk |-> dk, err |-> ErrOther, data |-> NoData]
              ELSE LET c == [Id |-> fresh, Name |-> ref.v, Running |-> FALSE, Links |-> <<>>]
                   IN [dk |-> dk \cup {c}, err |-> ErrNone, data |-> c]
         [] op = "start" ->
              IF Found(dk, ref)
              THEN LET c == TheContainer(dk, ref)
                   IN [dk |-> (dk \ {c}) \cup {[c EXCEPT !.Running = TRUE]}, err |-> ErrNone, data |-> c]
              ELSE [dk |-> dk, err |-> ErrNoSuch, data |-> NoData]
         [] op = "stop" ->
              IF Found(dk, ref)
              THEN LET c == TheContainer(dk, ref)
                   IN [dk |-> (dk \ {c}) \cup {[c EXCEPT !.Running = FALSE]}, err |-> ErrNone, data |-> c]
              ELSE [dk |-> dk, err |-> ErrNoSuch, data |-> NoData]
         [] op = "remove" ->
              IF Found(dk, ref)
              THEN LET c == TheContainer(dk, ref)
                   IN IF c.Running THEN [dk |-> dk, err |-> ErrOther, data |-> NoData]
                      ELSE [dk |-> Unlinked(dk \ {c}, c), err |-> ErrNone, data |-> c]
              ELSE [dk |-> dk, err |-> ErrNoSuch, data |-> NoData]
         [] OTHER -> [dk |-> dk, err |-> ErrNone, data |-> NoData]

(***************************************************************************)
(* The heap of the process, handled as one record by the handlers          *)
(***************************************************************************)
\* function() {}: a callback that does nothing
Null == [t |-> "none"]

\* a Service as its constructor leaves it; four fields record its history:
\* adopted counts the containers _collectRunningContainer registered, hard says
\* that launch took the 'Hard deploy' branch, retired that a container of an
\* old generation was removed for this service, emitted is the last of the
\* events started and stopped the Service has emitted
NewService ==
  [containers |-> <<>>, recentFailures |-> 0, launched |-> FALSE, queue |-> <<>>, work |-> Null,
   adopted |-> 0, hard |-> FALSE, retired |-> FALSE, stopping |-> FALSE, emitted |-> "none"]

\* a Container as its constructor leaves it; initialize() is still to come
NewRunner(s, index, ref, id) ==
  [svc |-> s, index |-> index, ref |-> ref, id |-> id, started |-> FALSE, stopped |-> FALSE,
   stopping |-> FALSE, healthFailures |-> 0, watchTimeout |-> LOW_WATCH_TIMEOUT, pc |-> "init",
   nStarted |-> 0, nStopped |-> 0]

Heap == [svc |-> svc, runners |-> runners, docker |-> docker, images |-> images, dq |-> dq,
         joins |-> joins, app |-> app, trace |-> <<>>, crashed |-> crashed, server |-> server]

SmallestFree(used) == CHOOSE n \in 1..(Cardinality(used) + 1) : n \notin used /\ \A m \in 1..(n - 1) : m \in used

\* container Ids some callback or object still holds
IdsOf(k) == (IF "id" \in DOMAIN k THEN {k.id} ELSE {}) \cup (IF "valid" \in DOMAIN k THEN k.valid ELSE {})

HeldIds(st) ==
  {c.Id : c \in st.docker} \cup {st.runners[r].id : r \in DOMAIN st.runners}
    \cup UNION {IdsOf(st.dq[i].k) \cup (IF st.dq[i].ref.by = "id" THEN {st.dq[i].ref.v} ELSE {}) : i \in 1..Len(st.dq)}

\* the Id docker gives to the next container it creates
FreshId(st) == SmallestFree(HeldIds(st) \ {0})

Without(f, x) == [y \in (DOMAIN f) \ {x} |-> f[y]]

With(f, x, v) == [y \in (DOMAIN f) \cup {x} |-> IF y = x THEN v ELSE f[y]]

\* hand a call to the dockerQueue of DockerWrapper
Push(st, op, ref, k, who) ==
  [st EXCEPT !.dq = Append(@, [op |-> op, ref |-> ref, k |-> k]),
             !.trace = Append(@, [e |-> "issue", op |-> op, ref |-> ref, svc |-> who])]

\* EventEmitter.emit
Emitted(st, kind, src, ev) ==
  LET st1 == [st EXCEPT !.trace = Append(@, [e |-> "emit", kind |-> kind, src |-> src, ev |-> ev])]
  IN IF kind = "service" /\ ev \in {"started", "stopped"} THEN [st1 EXCEPT !.svc[src].emitted = ev] ELSE st1

RECURSIVE FoldSeq(_, _, _)
\* _.each / async.each over a list, as far as the iterator runs synchronously
FoldSeq(Op(_, _), st, seq) == IF seq = <<>> THEN st ELSE FoldSeq(Op, Op(st, Head(seq)), Tail(seq))

Reverse(seq) == [i \in 1..Len(seq) |-> seq[Len(seq) + 1 - i]]

RECURSIVE SetToSeq(_)
\* the members of a set of containers in the order docker lists them (by Id)
SetToSeq(S) == IF S = {} THEN <<>> ELSE LET c == CHOOSE x \in S : \A y \in S : x.Id <= y.Id IN <<c>> \o SetToSeq(S \ {c})

(***************************************************************************)
(* Container (lib/Container.js)                                            *)
(***************************************************************************)
\* Container.prototype.isRunning
Container_isRunning(st, r) == st.runners[r].started /\ ~st.runners[r].stopped

\* Container.prototype.getId
Container_getId(st, r) == st.runners[r].id

(***************************************************************************)
(* Service (lib/Service.js)                                                *)
(***************************************************************************)
\* Service.prototype.isRunning
Service_isRunning(st, s) == \E i \in 1..Len(st.svc[s].containers) : Container_isRunning(st, st.svc[s].containers[i])

\* Service.prototype.isUp
Service_isUp(st, s) ==
  /\ Len(st.svc[s].containers) > 0
  /\ \A i \in 1..Len(st.svc[s].containers) : Container_isRunning(st, st.svc[s].containers[i])

\* Service.prototype.getContainerIds
getContainerIds(st, s) == {Container_getId(st, st.svc[s].containers[i]) : i \in 1..Len(st.svc[s].containers)}

\* Service.prototype._getNonRunningDependencies
getNonRunningDependencies(st, s) == {d \in build.dependencies[s] : ~Service_isRunning(st, d)}

\* the services that listen to the events of s, in the order they subscribed
\* (linkDependencies runs in the order of Application.services)
Listeners(s) == SelectSeq(build.sortedList, LAMBDA t : s \in build.dependencies[t])

\* Service.prototype.isEnabled: options.Enabled, which the constructor sets to
\* true when the manifest does not give it
Service_isEnabled(s) == IF "Enabled" \in DOMAIN config[s] THEN config[s].Enabled ELSE TRUE

\* the Application a service belongs to; the manifests with one Application
\* do not say it
AppOf(s) == IF "App" \in DOMAIN config[s] THEN config[s].App ELSE 1

\* self.services of Application g
Services(g) == SelectSeq(build.sortedList, LAMBDA s : AppOf(s) = g)

\* Application.prototype.isUp
Application_isUp(st, g) ==
  Len(Services(g)) > 0 /\ \A s \in Range(Services(g)) : Service_isUp(st, s) \/ ~Service_isEnabled(s)

\* Service.prototype._pushWork: the task waits in workQueue
pushWork(st, s, kind, force, k) == [st EXCEPT !.svc[s].queue = Append(@, [kind |-> kind, force |-> force, k |-> k])]

\* Service.prototype._startContainers
startContainers(st, s, k) == pushWork(st, s, "start", FALSE, k)

\* Service.prototype._stopOldContainers
stopOldContainers(st, s, force, k) == pushWork(st, s, "stopOld", force, k)

\* Service.prototype._collectRunningContainers
collectRunningContainers(st, s, k) == pushWork(st, s, "collect", FALSE, k)

\* an isOldContainer that does not look at the current prefix
isOldContainer_AnyHash(cfg, s, force, containerInfo) ==
  LET name == DockerName(containerInfo.Name)
      oldPrefix == ReplaceNameChars(cfg[s].Key \o <<"-">>)
  IN Contains(name, oldPrefix) /\ Contains(name, CONTAINER_POSTFIX) /\ CountChar(name, "/") <= 1

\* isOldContainer inside _stopOldContainers
isOldContainer(cfg, s, force, containerInfo) ==
  LET name == DockerName(containerInfo.Name)
      curPrefix == createContainerName(cfg, s, 0, FALSE)
      oldPrefix == ReplaceNameChars(cfg[s].Key \o <<"-">>)
  IN /\ Contains(name, oldPrefix)
     /\ Contains(name, CONTAINER_POSTFIX)
     /\ CountChar(name, "/") <= 1
     /\ (force \/ ~Contains(name, curPrefix))

\* containerInfo.Names of listContainers: the name of the container, then the
\* names it has as the target of links
Names(containerInfo) == <<DockerName(containerInfo.Name)>> \o containerInfo.Links

\* the test of Application._cleanupContainers: not started by me, don't touch it
NotStartedByMe(containerInfo) == \A i \in 1..Len(Names(containerInfo)) : ~Contains(Names(containerInfo)[i], CONTAINER_POSTFIX)

\* Application.prototype._cleanupContainers: validIds, then listContainers
cleanupContainers(st, g) ==
  LET validIds == UNION {getContainerIds(st, s) : s \in Range(Services(g))}
  IN Push(st, "list", ByName(<<>>), [t |-> "cleanupList", valid |-> validIds], 0)

\* Application.prototype._onServiceAllStarted
onServiceAllStarted(st, s) == IF Application_isUp(st, AppOf(s)) THEN cleanupContainers(st, AppOf(s)) ELSE st

\* Service.prototype.setStoppingState: the service and its runners are marked
Service_setStoppingState(st, s) ==
  [st EXCEPT !.svc[s].stopping = TRUE,
             !.runners = [r \in DOMAIN @ |-> IF r \in Range(st.svc[s].containers) THEN [@[r] EXCEPT !.stopping = TRUE] ELSE @[r]]]

\* Application.prototype.setStoppingState (nothing reads state.stopping of the
\* Application itself)
Application_setStoppingState(st, g) == FoldSeq(Service_setStoppingState, st, Services(g))

\* Application.prototype.stopAndRemoveContainer: the first inspect
stopAndRemoveContainer(st, id, k, who) == Push(st, "inspect", ById(id), [t |-> "sar1", id |-> id, k |-> k, svc |-> who, calls |-> <<>>], who)

\* a dependent that does not hear the started of its dependency
onDependentServiceStarted_Lost(st, d) == st

\* Service.prototype._onDependentServiceStarted
onDependentServiceStarted(st, d) == IF st.svc[d].launched THEN startContainers(st, d, Null) ELSE st

\* the newest Container of a service gets the lowest free number
NewRunnerId(st) == SmallestFree(DOMAIN st.runners)

\* Service.prototype._registerContainer: new Container(...), then c.initialize
registerContainer(st, s, index, ref, id, after) ==
  LET r == NewRunnerId(st)
  IN Push([st EXCEPT !.runners = With(@, r, NewRunner(s, index, ref, id))], "inspect", ref, [t |-> "init", r |-> r, after |-> after], s)

\* the container that the inspect of _startContainer found running is already
\* watched by one of my Containers
AlreadyRegistered(st, s, data) == \E i \in 1..Len(st.svc[s].containers) : Container_getId(st, st.svc[s].containers[i]) = data.Id

\* Service.prototype._getFirstContainerName throws when there is no container
FirstContainerMissing(st, d) == Len(st.svc[d].containers) = 0

\* createAndStartContainer inside _startContainer, up to docker.createContainer
createAndStartContainer(st, s, index) ==
  IF \E d \in config[s].Dependencies : FirstContainerMissing(st, d)
  THEN [st EXCEPT !.crashed = TRUE]
  ELSE Push(st, "create", ByName(createContainerName(config, s, index, TRUE)), [t |-> "startCreate", s |-> s, index |-> index], s)

\* Service.prototype._startContainer: the first inspect
startContainer(st, s, index) ==
  Push(st, "inspect", ByName(createContainerName(config, s, index, TRUE)), [t |-> "startInspect", s |-> s, index |-> index], s)

\* Service.prototype._collectRunningContainer: the inspect
collectRunningContainer(st, s, index) ==
  Push(st, "inspect", ByName(createContainerName(config, s, index, TRUE)), [t |-> "collectInspect", s |-> s, index |-> index], s)

\* the start gate of the worker of _startContainers
DependenciesReady(st, s) == getNonRunningDependencies(st, s) = {}

\* a launch that never takes the hard deploy branch
HardDeployStop_Never(st, s) == FALSE

\* the hard deploy test of the second step of Service.launch
HardDeployStop(st, s) == Len(st.svc[s].containers) = 0 /\ config[s].HardDeploy

\* emitStarted without its test of state.started
MayEmitStarted_Always(st, r) == TRUE

\* emitStarted inside _checkHealth: only if not emitted before
MayEmitStarted(st, r) == ~st.runners[r].started

\* emitStopped inside _checkHealth: only if not emitted before
MayEmitStopped(st, r) == ~st.runners[r].stopped

\* "Decrease failure count" of _onContainerStarted
DecreasedFailures(n) == IF n > 0 THEN n - 1 ELSE n

\* a budget test that lets one more failure pass
WithinHealthBudget_Late(st, r) == st.runners[r].healthFailures <= MAX_HEALTH_FAILURES

\* the budget test of _checkHealth for a started container that is not healthy
WithinHealthBudget(st, r) == st.runners[r].healthFailures < MAX_HEALTH_FAILURES

\* a Service that gives up at its first failure
TooManyFailures_Always(st, s) == TRUE

\* the quarantine test of _onContainerStopped
TooManyFailures(st, s) == st.svc[s].recentFailures > MAX_FAILURES

(***************************************************************************)
(* Handlers: each runs to its next asynchronous call                       *)
(***************************************************************************)
RECURSIVE Service_stop(_, _, _)
RECURSIVE Resume(_, _, _)
RECURSIVE workDone(_, _, _)
RECURSIVE beginWork(_, _)
RECURSIVE launched(_, _)

NewJoin(st, n, k) == [st EXCEPT !.joins = With(@, SmallestFree(DOMAIN st.joins), [n |-> n, failed |-> FALSE, k |-> k])]

\* Service.prototype.stop
Service_stop(st, s, k) ==
  LET mine == Range(st.svc[s].containers)
      st1 == [st EXCEPT !.runners = [r \in DOMAIN @ |-> IF r \in mine THEN [@[r] EXCEPT !.stopping = TRUE] ELSE @[r]],
                        !.svc[s].containers = <<>>,
                        !.trace = Append(@, [e |-> "stop", svc |-> s])]
      \* Application.prototype.stopDependencies
      dependents == SelectSeq(Reverse(build.sortedList), LAMBDA t : dependsOn(config, t, s))
      j == SmallestFree(DOMAIN st1.joins)
  IN IF dependents = <<>>
     THEN stopOldContainers(st1, s, TRUE, k)
     ELSE FoldSeq(LAMBDA x, d : Service_stop(x, d, [t |-> "join", j |-> j]),
                  NewJoin(st1, Len(dependents), [t |-> "stop1", s |-> s, k |-> k]), dependents)

\* Service.prototype._onDependentServiceStopped
onDependentServiceStopped(st, d) == Service_stop(st, d, Null)

\* Service.prototype._onContainerStarted
onContainerStarted(st, s, r) ==
  LET st1 == [st EXCEPT !.svc[s].recentFailures = DecreasedFailures(@)]
      runningCount == Cardinality({i \in 1..Len(st1.svc[s].containers) : Container_isRunning(st1, st1.svc[s].containers[i])})
      st2 == IF runningCount = 1
             THEN FoldSeq(onDependentServiceStarted, Emitted(st1, "service", s, "started"), Listeners(s))
             ELSE st1
  IN IF runningCount = config[s].Scale
     THEN stopOldContainers(onServiceAllStarted(Emitted(st2, "service", s, "allStarted"), s), s, FALSE, Null)
     ELSE st2

\* Service.prototype._onContainerStopped
onContainerStopped(st, s, r) ==
  LET st1 == [st EXCEPT !.svc[s].recentFailures = @ + 1,
                        !.svc[s].containers = SelectSeq(@, LAMBDA x : x # r)]
      st2 == FoldSeq(onDependentServiceStopped, Emitted(st1, "service", s, "stopped"), Listeners(s))
  IN IF ~Service_isRunning(st1, s)
     THEN IF TooManyFailures(st2, s) THEN st2 ELSE startContainers(st2, s, Null)
     ELSE startContainers(st1, s, Null)

\* emitStarted inside _checkHealth; the Service listens with once()
emitStarted(st, r) ==
  IF MayEmitStarted(st, r)
  THEN LET st1 == Emitted([st EXCEPT !.runners[r].started = TRUE, !.runners[r].nStarted = @ + 1], "container", r, "started")
       IN IF st.runners[r].nStarted = 0 THEN onContainerStarted(st1, st.runners[r].svc, r) ELSE st1
  ELSE st

\* emitStopped inside _checkHealth; the Service listens with once()
emitStopped(st, r) ==
  IF MayEmitStopped(st, r)
  THEN LET st1 == Emitted([st EXCEPT !.runners[r].stopped = TRUE, !.runners[r].nStopped = @ + 1], "container", r, "stopped")
       IN IF st.runners[r].nStopped = 0 THEN onContainerStopped(st1, st.runners[r].svc, r) ELSE st1
  ELSE st

\* ContainerWrapper.attach, which _checkHealth calls to dump the log of a
\* stopped container: one more call handed to the dockerQueue
ContainerWrapper_attach(st, r) ==
  Push([st EXCEPT !.runners[r].pc = "attach"], "attach", st.runners[r].ref, [t |-> "tickAttach", r |-> r], st.runners[r].svc)

\* a callback that resets the timer whatever the state
tickDone_Always(st, r) == [st EXCEPT !.runners[r].pc = "timer"]

\* the callback startWatching hands to _checkHealth: reset the timer unless stopped
tickDone(st, r) ==
  IF st.runners[r].stopped
  THEN [st EXCEPT !.runners = Without(@, r)]
  ELSE [st EXCEPT !.runners[r].pc = "timer"]

\* Service.shouldRegisterContainers: the Register of the manifest; a manifest
\* entry without the field is one that switches registration off
shouldRegisterContainers(s) == "Register" \in DOMAIN config[s] /\ config[s].Register

\* a callback that takes a failed registration for a stopped container
registered_Strict(st, r, err) ==
  IF err THEN tickDone(emitStopped(st, r), r)
  ELSE tickDone(emitStarted([st EXCEPT !.runners[r].watchTimeout = WATCH_TIMEOUT], r), r)

\* the callback _checkHealth hands to _performRegistration: it does not look
\* at err; raise the interval, emit started, return to startWatching
registered(st, r, err) ==
  tickDone(emitStarted([st EXCEPT !.runners[r].watchTimeout = WATCH_TIMEOUT], r), r)

\* Container.prototype._performRegistration: nothing to do unless the service
\* registers, else the ports go to the registration store
_performRegistration(st, r) ==
  IF ~shouldRegisterContainers(st.runners[r].svc) THEN registered(st, r, FALSE)
  ELSE [st EXCEPT !.runners[r].pc = "register"]

\* _checkHealth, isHealthy: reset the failures, register, raise the interval, emit
healthy(st, r) ==
  _performRegistration([st EXCEPT !.runners[r].healthFailures = 0,
                                  !.trace = Append(@, [e |-> "log", msg |-> "is healthy", r |-> r])], r)

\* _checkHealth, not healthy
unhealthy(st, r) ==
  IF ~st.runners[r].started THEN tickDone(st, r)
  ELSE IF WithinHealthBudget(st, r)
       THEN tickDone([st EXCEPT !.runners[r].healthFailures = @ + 1, !.runners[r].watchTimeout = LOW_WATCH_TIMEOUT], r)
       ELSE Push([st EXCEPT !.runners[r].pc = "stop"], "stop", st.runners[r].ref, [t |-> "tickStop", r |-> r], st.runners[r].svc)

\* Health.prototype.check: no tests means healthy at once, else the probes run
healthCheck(st, r) == IF config[st.runners[r].svc].Health THEN [st EXCEPT !.runners[r].pc = "probe"] ELSE healthy(st, r)

\* async.each: one iterator has called back
joinDone(st, j, err) ==
  LET jr == st.joins[j]
      st1 == IF jr.n = 1 THEN [st EXCEPT !.joins = Without(@, j)]
             ELSE [st EXCEPT !.joins[j].n = @ - 1, !.joins[j].failed = @ \/ err # ErrNone]
  IN IF jr.failed THEN st1
     ELSE IF err # ErrNone THEN Resume(st1, jr.k, err)
     ELSE IF jr.n = 1 THEN Resume(st1, jr.k, ErrNone) ELSE st1

\* Application.prototype._launchServices: async.eachSeries over the services
launchNext(st, i) ==
  LET services == Services(st.server.built)
  IN IF i > Len(services) THEN launched(st, ErrNone)
     ELSE collectRunningContainers([st EXCEPT !.app = [pc |-> "launch", idx |-> i]], services[i], [t |-> "launch1", s |-> services[i]])

\* the callback of Service.launch inside _launchServices
launchEnded(st, err) == IF err # ErrNone THEN launched(st, err) ELSE launchNext(st, st.app.idx + 1)

\* third step of Service.launch
launchStart(st, s) == startContainers([st EXCEPT !.svc[s].launched = TRUE], s, [t |-> "launch3", s |-> s])

\* Service.prototype.pullImage: the first img.inspect
pullImage(st, i) ==
  LET s == Services(st.server.built)[i]
  IN Push([st EXCEPT !.app = [pc |-> "pull", idx |-> i]], "imgInspect", [by |-> "image", v |-> s], [t |-> "pull1", s |-> s], s)

\* a launch that goes on to the services without pulling their images
pullNext_Skipped(st, i) == launchNext(IF st.server.old # 0 THEN Application_setStoppingState(st, st.server.old) ELSE st, 1)

\* Application.prototype._pullImages: async.eachSeries; then the second step of
\* Application.launch: the old application is marked, then _launchServices
pullNext(st, i) ==
  IF i > Len(Services(st.server.built))
  THEN launchNext(IF st.server.old # 0 THEN Application_setStoppingState(st, st.server.old) ELSE st, 1)
  ELSE pullImage(st, i)

\* Application.prototype.launch of Application g
Application_launch(st, g) == pullNext([st EXCEPT !.server.launching = @ \cup {g}], 1)

\* Server.prototype._onConfigChanged: the old application is saved, the next
\* one is built and launched
onConfigChanged(st) ==
  LET g == st.server.built + 1
  IN Application_launch([st EXCEPT !.server.updating = TRUE, !.server.old = st.server.application, !.server.built = g], g)

\* a workQueue without a limit on the tasks it runs at the same time
WorkerFree_Always(st) == TRUE

\* async.queue: a worker of Server.workQueue is free (concurrency 1)
WorkerFree(st) == st.server.workers < 1

\* the worker of Server.workQueue takes the next task
processTask(st) == onConfigChanged([st EXCEPT !.server.tasks = @ - 1, !.server.workers = @ + 1])

\* the callback the worker gave to the task: the worker is free, process()
taskDone(st) ==
  LET st1 == [st EXCEPT !.server.workers = @ - 1]
  IN IF st1.server.tasks > 0 /\ WorkerFree(st1) THEN processTask(st1) ELSE st1

\* the last callback of Application.launch, which is the callback that
\* _onConfigChanged gave it: self.application = application, then cb()
launched(st, err) ==
  LET g == st.server.built
  IN taskDone([st EXCEPT !.app = [pc |-> IF err = ErrNone THEN "done" ELSE "failed", idx |-> 0],
                         !.trace = Append(@, [e |-> "launched", app |-> g, err |-> err]),
                         !.server.application = g, !.server.updating = FALSE, !.server.launching = @ \ {g}])

Resume(st, k, err) ==
  CASE k.t = "none" -> st
    [] k.t = "launch1" ->
         IF err # ErrNone THEN launchEnded(st, err)
         ELSE IF HardDeployStop(st, k.s) THEN Service_stop([st EXCEPT !.svc[k.s].hard = TRUE], k.s, [t |-> "launch2", s |-> k.s])
         ELSE launchStart(st, k.s)
    [] k.t = "launch2" -> IF err # ErrNone THEN launchEnded(st, err) ELSE launchStart(st, k.s)
    [] k.t = "launch3" -> launchEnded(st, err)
    [] k.t = "join" -> joinDone(st, k.j, err)
    [] k.t = "stop1" -> IF err # ErrNone THEN Resume(st, k.k, err) ELSE stopOldContainers(st, k.s, TRUE, k.k)
    [] k.t = "workDone" -> workDone(st, k.s, err)
    [] k.t = "cleanupDone" -> st

\* the worker of workQueue takes the next task
beginWork(st, s) ==
  LET item == Head(st.svc[s].queue)
      st1 == [st EXCEPT !.svc[s].work = item, !.svc[s].queue = Tail(@)]
  IN CASE item.kind = "collect" -> collectRunningContainer(st1, s, 0)
       [] item.kind = "start" -> IF DependenciesReady(st1, s) THEN startContainer(st1, s, 0) ELSE workDone(st1, s, ErrNone)
       [] item.kind = "stopOld" -> Push(st1, "list", ByName(<<>>), [t |-> "stopOldList", s |-> s, force |-> item.force], s)

\* _pushWork: done(), which starts the next task, then the callback of the task
workDone(st, s, err) ==
  LET item == st.svc[s].work
      st1 == [st EXCEPT !.svc[s].work = Null]
      st2 == IF st1.svc[s].queue # <<>> THEN beginWork(st1, s) ELSE st1
  IN Resume(st2, item.k, err)

\* async.eachSeries over the indexes of _collectRunningContainers / _startContainers
nextIndex(st, s, index, kind, err) ==
  IF err # ErrNone THEN workDone(st, s, err)
  ELSE IF index + 1 < config[s].Scale
       THEN IF kind = "collect" THEN collectRunningContainer(st, s, index + 1) ELSE startContainer(st, s, index + 1)
       ELSE workDone(st, s, ErrNone)

\* stopAndRemoveContainer has the answer of one more call: what it asked and
\* what the engine said
Called(k, op, err, data) == [k EXCEPT !.calls = Append(@, [op |-> op, err |-> err, running |-> data.Running])]

\* the final callback of async.series in stopAndRemoveContainer
sarEnded(st, k, err) ==
  Resume([st EXCEPT !.trace = Append(@, [e |-> "retire", id |-> k.id, err |-> err, calls |-> k.calls])], k.k, err)

\* a stop that is taken for done whatever the engine says
StopFailed_Never(err) == FALSE

\* the callback of dc.stop: an error that is not noSuchContainer ends the series
StopFailed(err) == err \notin {ErrNone, ErrNoSuch}

\* second inspect of stopAndRemoveContainer
sarRemovePhase(st, k) == Push(st, "inspect", ById(k.id), [k EXCEPT !.t = "sar2"], k.svc)

\* the callback of an engine call, run when the call has completed
Callback(st, k, err, data) ==
  CASE k.t = "tickInspect" ->
         IF err # ErrNone THEN tickDone(emitStopped(st, k.r), k.r)
         ELSE IF ~data.Running THEN ContainerWrapper_attach(st, k.r)
         ELSE healthCheck(st, k.r)
    [] k.t = "tickAttach" -> tickDone(emitStopped(st, k.r), k.r)
    [] k.t = "tickStop" -> tickDone(emitStopped(st, k.r), k.r)
    [] k.t = "init" ->
         IF err # ErrNone THEN nextIndex([st EXCEPT !.runners = Without(@, k.r)], k.after.s, k.after.index, k.after.kind, err)
         ELSE nextIndex([st EXCEPT !.svc[k.after.s].containers = Append(@, k.r), !.runners[k.r].pc = "timer",
                                   !.svc[k.after.s].adopted = IF k.after.kind = "collect" THEN @ + 1 ELSE @],
                        k.after.s, k.after.index, k.after.kind, ErrNone)
    [] k.t = "collectInspect" ->
         IF err = ErrNone /\ data.Running
         THEN registerContainer(st, k.s, k.index, ByName(data.Name), data.Id, [s |-> k.s, index |-> k.index, kind |-> "collect"])
         ELSE nextIndex(st, k.s, k.index, "collect", ErrNone)
    [] k.t = "startInspect" ->
         IF err = ErrNone
         THEN IF data.Running
              THEN IF ~AlreadyRegistered(st, k.s, data)
                   THEN registerContainer(st, k.s, k.index, ByName(data.Name), data.Id, [s |-> k.s, index |-> k.index, kind |-> "start"])
                   ELSE nextIndex(st, k.s, k.index, "start", ErrNone)
              ELSE Push(st, "remove", ByName(data.Name), [t |-> "startRemove", s |-> k.s, index |-> k.index], k.s)
         ELSE createAndStartContainer(st, k.s, k.index)
    [] k.t = "startRemove" ->
         IF err # ErrNone THEN nextIndex(st, k.s, k.index, "start", err) ELSE createAndStartContainer(st, k.s, k.index)
    [] k.t = "startCreate" ->
         IF err # ErrNone THEN nextIndex(st, k.s, k.index, "start", err)
         ELSE Push(st, "start", ById(data.Id), [t |-> "startStart", s |-> k.s, index |-> k.index, id |-> data.Id], k.s)
    [] k.t = "startStart" ->
         IF err # ErrNone THEN nextIndex(st, k.s, k.index, "start", err)
         ELSE registerContainer(st, k.s, k.index, ById(k.id), k.id, [s |-> k.s, index |-> k.index, kind |-> "start"])
    [] k.t = "stopOldList" ->
         LET old == SelectSeq(SetToSeq(st.docker), LAMBDA c : isOldContainer(config, k.s, k.force, c))
             j == SmallestFree(DOMAIN st.joins)
         IN IF err # ErrNone THEN workDone(st, k.s, err)
            ELSE IF old = <<>> THEN workDone(st, k.s, ErrNone)
            ELSE FoldSeq(LAMBDA x, c : stopAndRemoveContainer(x, c.Id, [t |-> "join", j |-> j], k.s),
                         NewJoin(st, Len(old), [t |-> "workDone", s |-> k.s]), old)
    [] k.t = "cleanupList" ->
         LET obsolete == SelectSeq(SetToSeq(st.docker), LAMBDA c : c.Id \notin k.valid /\ ~NotStartedByMe(c))
             j == SmallestFree(DOMAIN st.joins)
         IN IF err # ErrNone \/ obsolete = <<>> THEN st
            ELSE FoldSeq(LAMBDA x, c : stopAndRemoveContainer(x, c.Id, [t |-> "join", j |-> j], 0),
                         NewJoin(st, Len(obsolete), [t |-> "cleanupDone"]), obsolete)
    [] k.t = "sar1" ->
         LET k1 == Called(k, "inspect", err, data)
         IN IF err = ErrNoSuch THEN sarRemovePhase(st, k1)
            ELSE IF err # ErrNone THEN sarEnded(st, k1, err)
            ELSE IF ~data.Running THEN sarRemovePhase(st, k1)
            ELSE Push(st, "stop", ById(k.id), [k1 EXCEPT !.t = "sarStop"], k.svc)
    [] k.t = "sarStop" ->
         LET k1 == Called(k, "stop", err, data)
         IN IF StopFailed(err) THEN sarEnded(st, k1, err) ELSE sarRemovePhase(st, k1)
    [] k.t = "sar2" ->
         LET k1 == Called(k, "inspect", err, data)
         IN IF err = ErrNoSuch THEN sarEnded(st, k1, ErrNone)
            ELSE IF err # ErrNone THEN sarEnded(st, k1, err)
            ELSE Push(st, "remove", ById(k.id), [k1 EXCEPT !.t = "sarRemove"], k.svc)
    [] k.t = "sarRemove" ->
         LET k1 == Called(k, "remove", err, data)
         IN IF err \in {ErrNone, ErrNoSuch}
            THEN sarEnded(IF err = ErrNone /\ k.svc # 0 THEN [st EXCEPT !.svc[k.svc].retired = TRUE] ELSE st, k1, ErrNone)
            ELSE sarEnded(st, k1, err)
    [] k.t = "pull1" ->
         IF err = ErrNone THEN pullNext(st, st.app.idx + 1)
         ELSE Push(st, "createImage", [by |-> "image", v |-> k.s], [t |-> "pull2", s |-> k.s], k.s)
    [] k.t = "pull2" ->
         IF err # ErrNone THEN launched(st, err)
         ELSE [st EXCEPT !.app = [pc |-> "stream", idx |-> st.app.idx]]
    [] k.t = "pull3" ->
         IF err # ErrNone THEN launched(st, err) ELSE pullNext(st, st.app.idx + 1)

(***************************************************************************)
(* Actions                                                                 *)
(***************************************************************************)
Commit(st) ==
  /\ svc' = st.svc /\ runners' = st.runners /\ docker' = st.docker /\ images' = st.images
  /\ dq' = st.dq /\ joins' = st.joins /\ app' = st.app /\ trace' = st.trace /\ crashed' = st.crashed
  /\ server' = st.server

Alive == ~crashed /\ build.pc = "built"

\* Server._onConfigChanged: application.launch(...), which begins with _pullImages
Launch ==
  /\ Alive /\ app.pc = "new"
  /\ Commit(pullNext(Heap, 1))
  /\ UNCHANGED <<config, build, env>>

\* async.queue: the worker of a Service's workQueue picks up a waiting task
ProcessQueue(s) ==
  /\ Alive /\ svc[s].work = Null /\ svc[s].queue # <<>>
  /\ Commit(beginWork(Heap, s))
  /\ UNCHANGED <<config, build, env>>

\* a worker that would take the task pushed last
NextCall_Newest(q) == Len(q)

\* async.queue: the worker of dockerQueue takes the task that waits longest
NextCall(q) == 1

\* the call dockerQueue has started completes and its callback runs
EngineStep(fail) ==
  /\ Alive /\ dq # <<>>
  /\ LET req == dq[NextCall(dq)]
         res == DockerExec(docker, req.op, req.ref, FreshId(Heap), fail)
         err == IF req.op = "imgInspect" /\ ~fail /\ req.ref.v \notin images THEN ErrNoSuch ELSE res.err
         st0 == [Heap EXCEPT !.dq = SubSeq(dq, 1, NextCall(dq) - 1) \o SubSeq(dq, NextCall(dq) + 1, Len(dq)), !.docker = res.dk,
                             !.trace = <<[e |-> "exec", op |-> req.op, ref |-> req.ref, err |-> err]>>]
     IN Commit(Callback(st0, req.k, err, res.data))
  /\ UNCHANGED <<config, build>>

\* the daemon answers the call
EngineOk == EngineStep(FALSE) /\ UNCHANGED env

\* the call ends with an error that is not a 404 (socket error, status 500)
EngineError == env.errors > 0 /\ EngineStep(TRUE) /\ env' = [env EXCEPT !.errors = @ - 1]

\* the timer of Container.startWatching fires
Tick(r) ==
  /\ Alive /\ runners[r].pc = "timer"
  /\ IF runners[r].stopping
     THEN Commit([Heap EXCEPT !.runners = Without(@, r)])
     ELSE Commit(Push([Heap EXCEPT !.runners[r].pc = "inspect"], "inspect", runners[r].ref, [t |-> "tickInspect", r |-> r], runners[r].svc))
  /\ UNCHANGED <<config, build, env>>

\* the answers the probes of a container may give
ProbeAnswers(r) ==
  CASE env.probes = "healthy" -> {TRUE}
    [] env.probes = "firstOnly" -> {~runners[r].started}
    [] OTHER -> BOOLEAN

\* the HTTP probes of Health.check have answered
ProbeDone(r, isHealthy) ==
  /\ Alive /\ runners[r].pc = "probe"
  /\ isHealthy \in ProbeAnswers(r)
  /\ Commit(IF isHealthy THEN healthy(Heap, r) ELSE unhealthy(Heap, r))
  /\ UNCHANGED <<config, build, env>>

\* async.each over the ports has called back: the write of
\* Registration._set went through, or it failed (or a host port was missing)
\* and the error was logged and handed on
RegistrationDone(r, err) ==
  /\ Alive /\ runners[r].pc = "register"
  /\ Commit(registered(IF err THEN [Heap EXCEPT !.trace = Append(@, [e |-> "log", msg |-> "registration failed", r |-> r])]
                       ELSE Heap, r, err))
  /\ UNCHANGED <<config, build, env>>

\* the stream of docker.createImage ends: the image is there, img.inspect(cb)
PullStreamEnd ==
  /\ Alive /\ app.pc = "stream"
  /\ LET s == Services(server.built)[app.idx]
     IN Commit(Push([Heap EXCEPT !.images = @ \cup {s}, !.app.pc = "pull"], "imgInspect", [by |-> "image", v |-> s], [t |-> "pull3", s |-> s], s))
  /\ UNCHANGED <<config, build, env>>

\* somebody else kills a running container
Kill(c) ==
  /\ Alive /\ env.kills > 0 /\ c \in docker /\ c.Running
  /\ docker' = (docker \ {c}) \cup {[c EXCEPT !.Running = FALSE]}
  /\ env' = [env EXCEPT !.kills = @ - 1]
  /\ trace' = <<[e |-> "kill", id |-> c.Id]>>
  /\ UNCHANGED <<config, build, svc, runners, images, dq, joins, app, crashed, server>>

(***************************************************************************)
(* SpecApp: one Application, launched once                                  *)
(***************************************************************************)
RECURSIVE BuildAll(_, _)
\* new Application(docker, config): _buildServices, then linkDependencies
BuildAll(cfg, b) ==
  IF b.pc \in {"built", "throw"} THEN b
  ELSE IF b.pc = "sort" THEN BuildAll(cfg, SortIteration(cfg, b)) ELSE BuildAll(cfg, LinkOne(cfg, b))

\* the hash in the name of the containers of the previous options of a service
OldHash == <<"0", "f">>

\* etcd and a web-app that depends on it (kiruna.conf.sample)
Manifest(scale1, scale2, hard1, hard2, health) ==
  <<[Key |-> <<"e">>, Dependencies |-> {}, Scale |-> scale1, HardDeploy |-> hard1, Health |-> health, Hash |-> <<"a", "1">>],
    [Key |-> <<"w">>, Dependencies |-> {1}, Scale |-> scale2, HardDeploy |-> hard2, Health |-> health, Hash |-> <<"b", "2">>]>>

\* the containers docker may hold when the daemon starts: of the current or
\* the previous options of a service, running or exited
CandidateNames(cfg) ==
  UNION {{createContainerName(cfg, s, i, TRUE) : i \in 0..(cfg[s].Scale - 1)} \cup {CreateContainerNameFor(cfg, s, OldHash, 0, TRUE)} : s \in DOMAIN cfg}

RECURSIVE NumberContainers(_, _)
NumberContainers(cs, n) ==
  IF cs = {} THEN {}
  ELSE LET c == CHOOSE x \in cs : TRUE IN {[c EXCEPT !.Id = n]} \cup NumberContainers(cs \ {c}, n + 1)

\* the states docker may be in for a choice of names: every one running or exited
DockerStates(names) ==
  {NumberContainers({[Id |-> 0, Name |-> n, Running |-> n \in up, Links |-> <<>>] : n \in names}, 1) : up \in SUBSET names}

InitSystem(cfg, dk, img, e) ==
  /\ config = cfg
  /\ build = BuildAll(cfg, BuildStart(cfg))
  /\ svc = [s \in DOMAIN cfg |-> NewService]
  /\ runners = <<>> /\ docker = dk /\ images = img /\ dq = <<>> /\ joins = <<>>
  /\ app = [pc |-> "new", idx |-> 0] /\ trace = <<>> /\ crashed = FALSE
  /\ server = FirstLaunch
  /\ env = e

(***************************************************************************)
(* SpecRunner: one service with one replica and no dependencies, launched  *)
(* once, while its container is killed, its probes give any answer and     *)
(* engine calls end in errors                                              *)
(***************************************************************************)
MaxFaults == 1

\* a manifest with one service and no dependencies
Single(scale, hard, health) ==
  <<[Key |-> <<"e">>, Dependencies |-> {}, Scale |-> scale, HardDeploy |-> hard, Health |-> health, Hash |-> <<"a", "1">>]>>

\* docker holds any of the candidate containers, each running or exited
AnyDocker(cfg) == UNION {DockerStates(names) : names \in SUBSET CandidateNames(cfg)}

\* what the surroundings may do: kills and engine errors share the faults
Surroundings(faults, probes) == {[kills |-> k, probes |-> probes, errors |-> faults - k] : k \in 0..faults}

InitRunner ==
  \E health \in BOOLEAN :
    \E dk \in AnyDocker(Single(1, FALSE, health)), img \in SUBSET {1}, e \in Surroundings(MaxFaults, "any") :
      InitSystem(Single(1, FALSE, health), dk, img, e)

NextRunner ==
  \/ Launch
  \/ \E s \in DOMAIN svc : ProcessQueue(s)
  \/ EngineOk
  \/ EngineError
  \/ \E r \in DOMAIN runners : Tick(r)
  \/ \E r \in DOMAIN runners : \E isHealthy \in BOOLEAN : ProbeDone(r, isHealthy)
  \/ PullStreamEnd
  \/ \E c \in docker : Kill(c)

SpecRunner == InitRunner /\ [][NextRunner]_vars

(***************************************************************************)
(* SpecHard: one service with hard deploy over whatever docker holds       *)
(***************************************************************************)
MaxScale == 2

InitHard ==
  \E scale \in 1..MaxScale, hard \in BOOLEAN :
    \E dk \in AnyDocker(Single(scale, hard, FALSE)), img \in SUBSET {1} :
      InitSystem(Single(scale, hard, FALSE), dk, img, [kills |-> 0, probes |-> "healthy", errors |-> 0])

NextHard ==
  \/ Launch
  \/ \E s \in DOMAIN svc : ProcessQueue(s)
  \/ EngineOk
  \/ \E r \in DOMAIN runners : Tick(r)
  \/ PullStreamEnd

SpecHard == InitHard /\ [][NextHard]_vars

(***************************************************************************)
(* SpecApp: etcd and web-app, launched once from nothing or over running   *)
(* containers, while containers are killed and engine calls fail           *)
(***************************************************************************)
\* every replica of every service of the manifest, running
AllRunning(cfg) ==
  NumberContainers(UNION {{[Id |-> 0, Name |-> createContainerName(cfg, s, i, TRUE), Running |-> TRUE, Links |-> <<>>] :
                             i \in 0..(cfg[s].Scale - 1)} : s \in DOMAIN cfg}, 1)

InitApp ==
  \E dk \in {{}, AllRunning(Manifest(1, 1, FALSE, FALSE, FALSE))}, img \in {{}, {1, 2}}, e \in Surroundings(MaxFaults, "healthy") :
    InitSystem(Manifest(1, 1, FALSE, FALSE, FALSE), dk, img, e)

NextApp ==
  \/ Launch
  \/ \E s \in DOMAIN svc : ProcessQueue(s)
  \/ EngineOk
  \/ EngineError
  \/ \E r \in DOMAIN runners : Tick(r)
  \/ PullStreamEnd
  \/ \E c \in docker : Kill(c)

SpecApp == InitApp /\ [][NextApp]_vars

(***************************************************************************)
(* SpecReload: the manifest is launched again while every replica of the   *)
(* first launch is still running and nothing else changes                  *)
(***************************************************************************)
InitReload ==
  \E scale \in 1..MaxScale, health \in BOOLEAN :
    InitSystem(Manifest(1, scale, FALSE, FALSE, health), AllRunning(Manifest(1, scale, FALSE, FALSE, health)),
               {1, 2}, [kills |-> 0, probes |-> "healthy", errors |-> 0])

NextReload ==
  \/ Launch
  \/ \E s \in DOMAIN svc : ProcessQueue(s)
  \/ EngineOk
  \/ \E r \in DOMAIN runners : Tick(r)
  \/ \E r \in DOMAIN runners : ProbeDone(r, TRUE)

SpecReload == InitReload /\ [][NextReload]_vars

(***************************************************************************)
(* SpecCollapse: etcd and web-app are brought up, then the container of    *)
(* etcd is killed once; timers fire, queues run and the engine answers     *)
(***************************************************************************)
\* the services some other service depends on
DependedUpon == UNION {config[s].Dependencies : s \in DOMAIN config}

InitCollapse ==
  \E img \in {{}, {1, 2}} :
    InitSystem(Manifest(1, 1, FALSE, FALSE, FALSE), {}, img, [kills |-> 1, probes |-> "healthy", errors |-> 0])

\* the container of a dependency is killed while the application is up
KillDependency ==
  /\ Application_isUp(Heap, 1)
  /\ \E c \in docker : (\E d \in DependedUpon : c.Name = createContainerName(config, d, 0, TRUE)) /\ Kill(c)

NextCollapse ==
  \/ Launch
  \/ \E s \in DOMAIN svc : ProcessQueue(s)
  \/ EngineOk
  \/ \E r \in DOMAIN runners : Tick(r)
  \/ PullStreamEnd
  \/ KillDependency

\* the numbers the Containers alive at one time carry in these specifications
RunnerIds == {1, 2, 3, 4}

\* the numbers of the services of Manifest
ServiceIds == {1, 2}

\* setImmediate runs the queue worker, docker answers every call, timers fire
Fairness ==
  /\ WF_vars(Launch) /\ WF_vars(PullStreamEnd) /\ WF_vars(EngineOk)
  /\ \A s \in ServiceIds : WF_vars(s \in DOMAIN svc /\ ProcessQueue(s))
  /\ \A r \in RunnerIds : WF_vars(r \in DOMAIN runners /\ Tick(r))

SpecCollapse == InitCollapse /\ [][NextCollapse]_vars /\ Fairness

(***************************************************************************)
(* SpecChurn: one service whose containers pass their first health check   *)
(* and fail every later one                                                *)
(***************************************************************************)
InitChurn ==
  \E dk \in AnyDocker(Single(1, FALSE, TRUE)), img \in SUBSET {1} :
    InitSystem(Single(1, FALSE, TRUE), dk, img, [kills |-> 0, probes |-> "firstOnly", errors |-> 0])

NextChurn ==
  \/ Launch
  \/ \E s \in DOMAIN svc : ProcessQueue(s)
  \/ EngineOk
  \/ \E r \in DOMAIN runners : Tick(r)
  \/ \E r \in DOMAIN runners : \E isHealthy \in BOOLEAN : ProbeDone(r, isHealthy)
  \/ PullStreamEnd

\* the probes answer as well
FairnessChurn ==
  /\ Fairness
  /\ \A r \in RunnerIds : WF_vars(r \in DOMAIN runners /\ \E isHealthy \in BOOLEAN : ProbeDone(r, isHealthy))

SpecChurn == InitChurn /\ [][NextChurn]_vars /\ FairnessChurn

(***************************************************************************)
(* SpecQuarantine: one service with two replicas; the container of the     *)
(* last replica is killed again and again while the first keeps running    *)
(***************************************************************************)
\* enough kills to take recentFailures beyond MAX_FAILURES
FailureBudget == MAX_FAILURES + 2

InitQuarantine ==
  InitSystem(Single(2, FALSE, FALSE), {}, {1}, [kills |-> FailureBudget, probes |-> "healthy", errors |-> 0])

\* the container of the last replica of the service dies
KillLast == \E c \in docker : c.Name = createContainerName(config, 1, config[1].Scale - 1, TRUE) /\ Kill(c)

NextQuarantine ==
  \/ Launch
  \/ \E s \in DOMAIN svc : ProcessQueue(s)
  \/ EngineOk
  \/ \E r \in DOMAIN runners : Tick(r)
  \/ KillLast

SpecQuarantine == InitQuarantine /\ [][NextQuarantine]_vars

(***************************************************************************)
(* SpecCleanup: one service is launched while docker also holds containers *)
(* that this program did not start                                         *)
(***************************************************************************)
\* a container of somebody else, with the names the daemon lists after its own
Foreign(links) == [Id |-> 0, Name |-> <<"d", "b">>, Running |-> TRUE, Links |-> links]

\* the name a container has as the target of a link: /<linking container>/<alias>
LinkName(parent, alias) == DockerName(parent) \o <<"/">> \o alias

\* docker holds a container of the previous options of the service, or not, and
\* a container of somebody else that is the target of a link of that
\* container, or of no link
ForeignDocker(cfg) ==
  LET previous == CreateContainerNameFor(cfg, 1, OldHash, 0, TRUE)
      mine == [Id |-> 0, Name |-> previous, Running |-> TRUE, Links |-> <<>>]
  IN {NumberContainers({Foreign(<<>>)}, 1), NumberContainers({Foreign(<<>>), mine}, 1),
      NumberContainers({Foreign(<<LinkName(previous, <<"d", "b">>)>>), mine}, 1)}

InitCleanup ==
  \E dk \in ForeignDocker(Single(1, FALSE, FALSE)), img \in SUBSET {1}, e \in Surroundings(MaxFaults, "healthy") :
    InitSystem(Single(1, FALSE, FALSE), dk, img, e)

NextCleanup ==
  \/ Launch
  \/ \E s \in DOMAIN svc : ProcessQueue(s)
  \/ EngineOk
  \/ EngineError
  \/ \E r \in DOMAIN runners : Tick(r)
  \/ PullStreamEnd
  \/ \E c \in docker : Kill(c)

SpecCleanup == InitCleanup /\ [][NextCleanup]_vars

(***************************************************************************)
(* SpecImages: Application._cleanupImages over the images docker holds.     *)
(* A repository tag is a record [repo, tag]; a tag is a number: n stands    *)
(* for the semantic version n.0.0 and Latest for a tag that is no version.  *)
(* In this specification config[s] also has the Image and Tag of service s, *)
(* images is the set of images of docker, records [RepoTags], dq holds the  *)
(* removals handed to the engine and app counts the removals that succeeded *)
(***************************************************************************)
IMAGES_TO_KEEP == 3

\* a tag that semver.valid rejects, such as 'latest'
Latest == 0

\* pkg.name and pkg.version of the daemon
PkgName == "kiruna"

PkgVersion == 2

\* the key under which the images of the daemon itself are collected (__isMe)
Me == 0

RepoTag(repo, tag) == [repo |-> repo, tag |-> tag]

\* semver.valid(tag)
semverValid(tag) == tag # Latest

\* Service.prototype.getImageNameWithoutTag
Service_getImageNameWithoutTag(cfg, s) == cfg[s].Image

\* Service.prototype.getImageName: Image + ':' + Tag
Service_getImageName(cfg, s) == RepoTag(cfg[s].Image, cfg[s].Tag)

\* getServiceForImage inside _cleanupImages: the first service one of whose
\* images this is or was, else the daemon itself, else nothing
getServiceForImage(cfg, order, image) ==
  LET matches(s) == \E i \in 1..Len(image.RepoTags) : image.RepoTags[i].repo = Service_getImageNameWithoutTag(cfg, s)
      found == {i \in 1..Len(order) : matches(order[i])}
  IN IF found # {} THEN {order[CHOOSE i \in found : \A j \in found : i <= j]}
     ELSE IF \E i \in 1..Len(image.RepoTags) : image.RepoTags[i].repo = PkgName THEN {Me}
     ELSE {}

\* getTag(image) finds a tag
HasTag(image) == \E i \in 1..Len(image.RepoTags) : semverValid(image.RepoTags[i].tag)

\* getTag inside _cleanupImages: the first tag that is a semantic version
getTag(image) ==
  image.RepoTags[CHOOSE i \in 1..Len(image.RepoTags) :
                   semverValid(image.RepoTags[i].tag) /\ \A j \in 1..(i - 1) : ~semverValid(image.RepoTags[j].tag)].tag

\* isCurrentImage inside _cleanupImages
isCurrentImage(cfg, image, s) ==
  IF s = Me THEN RepoTag(PkgName, PkgVersion) \in Range(image.RepoTags)
  ELSE Service_getImageName(cfg, s) \in Range(image.RepoTags)

\* imageData[s.name] after "Collect data"
imageData(cfg, order, imgs, key) ==
  {image \in imgs : HasTag(image) /\ getServiceForImage(cfg, order, image) = {key} /\ ~isCurrentImage(cfg, image, key)}

\* "Remove image lists with too few images": what imageArr.sort and slice may
\* leave of one list; images of equal version come in any order
OldestOf(imageArr) ==
  IF Cardinality(imageArr) <= IMAGES_TO_KEEP - 1 THEN {{}}
  ELSE {old \in SUBSET imageArr :
          /\ Cardinality(old) = Cardinality(imageArr) - (IMAGES_TO_KEEP - 1)
          /\ \A x \in old, y \in imageArr \ old : getTag(x) <= getTag(y)}

RECURSIVE ImagesToRemove(_, _, _, _)
\* the lists that remain, of the keys given, flattened
ImagesToRemove(cfg, order, imgs, keys) ==
  IF keys = {} THEN {{}}
  ELSE LET key == CHOOSE k \in keys : TRUE
       IN {old \cup rest : old \in OldestOf(imageData(cfg, order, imgs, key)), rest \in ImagesToRemove(cfg, order, imgs, keys \ {key})}

RECURSIVE Requests(_)
\* async.each(imageNamesToRemove, ...): one di.remove for each image: RepoTags[0]
Requests(old) ==
  IF old = {} THEN <<>>
  ELSE LET image == CHOOSE x \in old : TRUE
       IN <<[op |-> "imgRemove", ref |-> [by |-> "image", v |-> image.RepoTags[1]], k |-> [t |-> "imgRemoved"]]>> \o Requests(old \ {image})

\* the daemon removes a repository tag; an image without tags is deleted
ImageRemove(imgs, name) ==
  {image \in {[RepoTags |-> SelectSeq(x.RepoTags, LAMBDA t : t # name)] : x \in imgs} : image.RepoTags # <<>>}

\* the highest version among the images of the inputs
MaxVersion == 4

\* service number i of a manifest, with the tag of its image
ImageService(i, tag) ==
  [Key |-> << <<"e">>, <<"w">> >>[i], Dependencies |-> {}, Scale |-> 1, HardDeploy |-> FALSE, Health |-> FALSE,
   Hash |-> <<"a", IndexText(tag)[1]>>, Image |-> "a", Tag |-> tag]

\* one service, or two services that use the same repository
ImageManifests ==
  {<<ImageService(1, t)>> : t \in 1..2} \cup {<<ImageService(1, t1), ImageService(2, t2)>> : t1 \in 1..2, t2 \in 1..2}

\* the repository tags docker may hold: of the repository of the services,
\* versions and 'latest', and of the daemon
AllRepoTags == {RepoTag("a", t) : t \in 0..MaxVersion} \cup {RepoTag(PkgName, t) : t \in 1..MaxVersion}

\* the images docker may hold: every repository tag belongs to one image, and
\* at most one image has two of them
LocalImages ==
  UNION {{{[RepoTags |-> <<t>>] : t \in tags}} \cup
         {{[RepoTags |-> <<t>>] : t \in tags \ {p[1], p[2]}} \cup {[RepoTags |-> <<p[1], p[2]>>]} :
            p \in {q \in tags \X tags : q[1] # q[2]}} :
         tags \in SUBSET AllRepoTags}

\* _pullImages has seen to it that the image of every service is there
Pulled(cfg, imgs) == \A s \in DOMAIN cfg : \E image \in imgs : Service_getImageName(cfg, s) \in Range(image.RepoTags)

InitImages ==
  /\ config \in ImageManifests
  /\ build = BuildAll(config, BuildStart(config))
  /\ images \in {imgs \in LocalImages : Pulled(config, imgs)}
  /\ env \in {[kills |-> 0, probes |-> "healthy", errors |-> n] : n \in 0..MaxFaults}
  /\ app = [pc |-> "up", removedCount |-> 0, listed |-> {}, requested |-> {}]
  /\ svc = <<>> /\ runners = <<>> /\ docker = {} /\ dq = <<>> /\ joins = <<>> /\ trace = <<>> /\ crashed = FALSE
  /\ server = [FirstLaunch EXCEPT !.application = 1, !.updating = FALSE, !.workers = 0, !.launching = {}]

\* Application.prototype._cleanupImages: the callback of docker.listImages
CleanupImages(fail) ==
  /\ Alive /\ app.pc = "up"
  /\ IF fail
     THEN /\ env.errors > 0
          /\ env' = [env EXCEPT !.errors = @ - 1]
          /\ app' = [app EXCEPT !.pc = "failed"]
          /\ dq' = <<>> /\ trace' = <<[e |-> "exec", op |-> "listImages", err |-> ErrOther]>>
     ELSE \E old \in ImagesToRemove(config, build.sortedList, images, {Me} \cup DOMAIN config) :
            /\ dq' = Requests(old)
            /\ app' = [pc |-> IF old = {} THEN "cleaned" ELSE "removing", removedCount |-> 0,
                       listed |-> images, requested |-> {image.RepoTags[1] : image \in old}]
            /\ trace' = [i \in 1..Len(dq') |-> [e |-> "issue", op |-> "imgRemove", ref |-> dq'[i].ref, svc |-> 0]]
            /\ UNCHANGED env
  /\ UNCHANGED <<config, build, svc, runners, docker, images, joins, crashed, server>>

\* the callback of di.remove: a failure is logged, a success counted; after
\* the last one 'Completed removing %d images'
ImageRemoved(fail) ==
  /\ Alive /\ app.pc = "removing" /\ dq # <<>>
  /\ IF fail
     THEN /\ env.errors > 0
          /\ env' = [env EXCEPT !.errors = @ - 1]
          /\ images' = images
          /\ app' = [app EXCEPT !.pc = IF Len(dq) = 1 THEN "cleaned" ELSE @]
     ELSE /\ images' = ImageRemove(images, Head(dq).ref.v)
          /\ app' = [app EXCEPT !.removedCount = @ + 1, !.pc = IF Len(dq) = 1 THEN "cleaned" ELSE @]
          /\ UNCHANGED env
  /\ dq' = Tail(dq)
  /\ trace' = <<[e |-> "exec", op |-> "imgRemove", ref |-> Head(dq).ref, err |-> IF fail THEN ErrOther ELSE ErrNone]>>
  /\ UNCHANGED <<config, build, svc, runners, docker, joins, crashed, server>>

NextImages ==
  \/ CleanupImages(FALSE)
  \/ CleanupImages(TRUE)
  \/ ImageRemoved(FALSE)
  \/ ImageRemoved(TRUE)

SpecImages == InitImages /\ [][NextImages]_vars

(***************************************************************************)
(* SpecIndependent: two services that do not depend on each other are      *)
(* launched from nothing while one engine call may end in an error         *)
(***************************************************************************)
\* a manifest of two services without dependencies
Independent ==
  <<[Key |-> <<"e">>, Dependencies |-> {}, Scale |-> 1, HardDeploy |-> FALSE, Health |-> FALSE, Hash |-> <<"a", "1">>],
    [Key |-> <<"w">>, Dependencies |-> {}, Scale |-> 1, HardDeploy |-> FALSE, Health |-> FALSE, Hash |-> <<"b", "2">>]>>

InitIndependent ==
  \E img \in SUBSET {1, 2}, errors \in 0..MaxFaults :
    InitSystem(Independent, {}, img, [kills |-> 0, probes |-> "healthy", errors |-> errors])

NextIndependent ==
  \/ Launch
  \/ \E s \in DOMAIN svc : ProcessQueue(s)
  \/ EngineOk
  \/ EngineError
  \/ \E r \in DOMAIN runners : Tick(r)
  \/ PullStreamEnd

SpecIndependent == InitIndependent /\ [][NextIndependent]_vars /\ Fairness

(***************************************************************************)
(* SpecServer: the Server and two Applications.  The manifest changes      *)
(* while the daemon runs: the first Application runs service e, the second *)
(* one runs e with another tag, so with another hash and another image.    *)
(* Both manifests are acyclic, so buildApplication does not throw.  Engine *)
(* calls may end in errors.  The rollout is followed until a service loses *)
(* a container.                                                            *)
(***************************************************************************)
\* the services of the two Applications: the options of the second differ
Rollout ==
  <<[Key |-> <<"e">>, Dependencies |-> {}, Scale |-> 1, HardDeploy |-> FALSE, Health |-> FALSE, Hash |-> <<"a", "1">>, App |-> 1],
    [Key |-> <<"e">>, Dependencies |-> {}, Scale |-> 1, HardDeploy |-> FALSE, Health |-> FALSE, Hash |-> <<"c", "3">>, App |-> 2]>>

\* the number of Applications the manifest is changed into
NumApps == Cardinality({AppOf(s) : s \in DOMAIN config})

\* the daemon starts: docker holds the image of the first Application and no
\* container, no task has been pushed yet
InitRollout(e) ==
  /\ config = Rollout
  /\ build = BuildAll(Rollout, BuildStart(Rollout))
  /\ svc = [s \in DOMAIN Rollout |-> NewService]
  /\ runners = <<>> /\ docker = {} /\ images = {1} /\ dq = <<>> /\ joins = <<>>
  /\ app = [pc |-> "none", idx |-> 0] /\ trace = <<>> /\ crashed = FALSE
  /\ server = IdleServer
  /\ env = e

InitServer == \E errors \in 0..MaxFaults : InitRollout([kills |-> 0, probes |-> "healthy", errors |-> errors])

\* no service has lost a container
Calm == \A s \in DOMAIN svc : svc[s].recentFailures = 0

\* no service of the last Application has lost a container
Intact == \A s \in Range(Services(NumApps)) : svc[s].recentFailures = 0

\* async.queue kill(): the tasks that have not started are dropped
workQueue_kill(tasks) == 0

\* async.queue push(): one more task waits
workQueue_push(tasks) == tasks + 1

\* the callback the Server gave to Configuration: the manifest has changed
ConfigChanged ==
  /\ Alive /\ server.built < NumApps
  /\ server' = [server EXCEPT !.tasks = workQueue_push(workQueue_kill(@))]
  /\ trace' = <<[e |-> "changed", dropped |-> server.tasks - workQueue_kill(server.tasks)]>>
  /\ UNCHANGED <<config, build, svc, runners, docker, images, dq, joins, app, crashed, env>>

\* async.queue process(), set off by push: the worker picks up the task
ProcessTask ==
  /\ Alive /\ server.tasks > 0 /\ WorkerFree(Heap)
  /\ Commit(processTask(Heap))
  /\ UNCHANGED <<config, build, env>>

NextServer ==
  \/ ConfigChanged
  \/ ProcessTask
  \/ \E s \in DOMAIN svc : ProcessQueue(s)
  \/ EngineOk
  \/ EngineError
  \/ \E r \in DOMAIN runners : Tick(r)
  \/ PullStreamEnd

SpecServer == InitServer /\ [][Calm /\ NextServer]_vars

(***************************************************************************)
(* SpecStopping: the rollout of SpecServer while somebody kills a running  *)
(* container; engine calls do not fail.  The rollout is followed until the *)
(* second Application loses a container.                                   *)
(***************************************************************************)
InitStopping == InitRollout([kills |-> 1, probes |-> "healthy", errors |-> 0])

NextStopping ==
  \/ ConfigChanged
  \/ ProcessTask
  \/ \E s \in DOMAIN svc : ProcessQueue(s)
  \/ EngineOk
  \/ \E r \in DOMAIN runners : Tick(r)
  \/ PullStreamEnd
  \/ \E c \in docker : Kill(c)

SpecStopping == InitStopping /\ [][Intact /\ NextStopping]_vars

(***************************************************************************)
(* SpecRetire: one service is launched over containers of its current and  *)
(* its previous options, running or exited.  The old ones are retired by    *)
(* _stopOldContainers and by the cleanup of the Application at the same     *)
(* time, while somebody else removes a container and engine calls end in    *)
(* errors                                                                   *)
(***************************************************************************)
\* somebody else removes a container (docker rm -f)
Vanish(c) ==
  /\ Alive /\ env.kills > 0 /\ c \in docker
  /\ docker' = Unlinked(docker \ {c}, c)
  /\ env' = [env EXCEPT !.kills = @ - 1]
  /\ trace' = <<[e |-> "vanish", id |-> c.Id]>>
  /\ UNCHANGED <<config, build, svc, runners, images, dq, joins, app, crashed, server>>

InitRetire ==
  \E dk \in AnyDocker(Single(1, FALSE, FALSE)), kills \in 0..1, errors \in 0..MaxFaults :
    InitSystem(Single(1, FALSE, FALSE), dk, {1}, [kills |-> kills, probes |-> "healthy", errors |-> errors])

NextRetire ==
  \/ Launch
  \/ \E s \in DOMAIN svc : ProcessQueue(s)
  \/ EngineOk
  \/ EngineError
  \/ \E r \in DOMAIN runners : Tick(r)
  \/ \E c \in docker : Vanish(c)

SpecRetire == InitRetire /\ [][NextRetire]_vars

(***************************************************************************)
(* SpecExpand: Configuration.buildApplication expands the variables of the *)
(* manifest (lib/Utils.js).  Text is a sequence of one-character strings;   *)
(* a value of the manifest is a record with one field, named after what it *)
(* is: string (a text), number (its decimal text), array (the sequence of   *)
(* its items) or object (the sequence of its keys, each with its value).    *)
(* In this specification config is the manifest as JSON.parse returned it,  *)
(* env is process.env and app holds expandedConfig                          *)
(***************************************************************************)
\* the characters that [a-z0-9_] matches, among those of the inputs
KeyChars == {"k", "j"}

\* the characters that \s matches, among those of the inputs
SpaceChars == {" "}

\* the longest run of characters of a class from position i on ends before
\* the position this gives
SkipClass(str, i, class) ==
  CHOOSE j \in i..(Len(str) + 1) : (j = Len(str) + 1 \/ str[j] \notin class) /\ \A m \in i..(j - 1) : str[m] \in class

\* RegExp.exec found nothing
NoMatch == [index |-> 0, end |-> 0, key |-> <<>>]

\* variableRegEx = /(\$\{\s*)([a-z0-9_]+)(\s*\})/ig matched at position i:
\* index and end are the first and last position of match[0], key is match[2]
MatchAt(str, i) ==
  IF i + 1 <= Len(str) /\ str[i] = "$" /\ str[i + 1] = "{"
  THEN LET a == SkipClass(str, i + 2, SpaceChars)
           b == SkipClass(str, a, KeyChars)
           c == SkipClass(str, b, SpaceChars)
       IN IF b > a /\ c <= Len(str) /\ str[c] = "}" THEN [index |-> i, end |-> c, key |-> SubSeq(str, a, b - 1)] ELSE NoMatch
  ELSE NoMatch

\* variableRegEx.exec(value) with lastIndex 0: the leftmost match
variableRegEx_exec(value) ==
  LET found == {i \in 1..Len(value) : MatchAt(value, i) # NoMatch}
  IN IF found = {} THEN NoMatch ELSE MatchAt(value, CHOOSE i \in found : \A j \in found : i <= j)

\* _.isString, _.isArray, _.isObject
IsA(value, type) == type \in DOMAIN value

\* the getValue that buildApplication hands to expandVariables:
\* process.env[key], or '' when there is none
getValue(environment, key) == IF key \in DOMAIN environment THEN environment[key] ELSE <<>>

\* the number of iterations of the loop of expandVariables that are followed
MaxRounds == 6

RECURSIVE expandLoop(_, _, _)
\* the while loop of Utils.expandVariables: the first match is replaced and
\* the search starts again at the beginning (lastIndex = 0)
expandLoop(value, environment, rounds) ==
  LET match == variableRegEx_exec(value)
  IN IF match = NoMatch THEN [returns |-> TRUE, value |-> value]
     ELSE IF rounds = 0 THEN [returns |-> FALSE, value |-> value]
     ELSE expandLoop(SubSeq(value, 1, match.index - 1) \o getValue(environment, match.key) \o SubSeq(value, match.end + 1, Len(value)),
                     environment, rounds - 1)

\* Utils.expandVariables as buildApplication calls it: only strings
expandVariables(value, environment) ==
  IF ~IsA(value, "string") THEN value ELSE [value EXCEPT !.string = expandLoop(@, environment, MaxRounds).value]

RECURSIVE recurse(_, _)
\* Utils.recurse(value, expandVariables)
recurse(value, environment) ==
  CASE IsA(value, "array") -> [value EXCEPT !.array = [i \in 1..Len(@) |-> recurse(@[i], environment)]]
    [] IsA(value, "object") -> [value EXCEPT !.object = [i \in 1..Len(@) |-> [key |-> @[i].key, value |-> recurse(@[i].value, environment)]]]
    [] OTHER -> expandVariables(value, environment)

RECURSIVE Returns(_, _)
\* the loop of expandVariables ends for every string of a value
Returns(value, environment) ==
  CASE IsA(value, "array") -> \A i \in 1..Len(value.array) : Returns(value.array[i], environment)
    [] IsA(value, "object") -> \A i \in 1..Len(value.object) : Returns(value.object[i].value, environment)
    [] IsA(value, "string") -> expandLoop(value.string, environment, MaxRounds).returns
    [] OTHER -> TRUE

\* the pieces the strings of the inputs are made of
Tokens ==
  {<<"$">>, <<"{">>, <<"}">>, <<" ">>, <<"k">>, <<"j">>, <<"-">>, <<"$", "{", "k", "}">>, <<"$", "{", " ", "j", " ", "}">>}

\* the number of pieces of a string of the inputs
MaxTokens == 3

RECURSIVE Texts(_)
Texts(n) == IF n = 0 THEN {<<>>} ELSE Texts(n - 1) \cup {t \o token : t \in Texts(n - 1), token \in Tokens}

String(text) == [string |-> text]

Entry(key, value) == [key |-> key, value |-> value]

Object(entries) == [object |-> entries]

\* the manifests: one string out of all, or objects and arrays around the
\* strings of Utils-spec.js
Documents ==
  LET simple == {<<"$", "{", "k", "}">>, <<" ", "$", "{", " ", "k", " ", "}", " ">>, <<"$", "{", "k", "}", "-", "$", "{", "j", "}">>, <<"k">>}
  IN {String(text) : text \in Texts(MaxTokens)}
       \cup {Object(<<Entry("Port", [array |-> <<String(x), [number |-> <<"8", "0">>], String(y)>>])>>) : x, y \in simple}
       \cup {Object(<<Entry("Image", String(x)), Entry("Env", Object(<<Entry("IP", String(y))>>))>>) : x, y \in simple}

\* what process.env may hold for a variable
EnvValues == {<<>>, <<"-">>, <<"$">>, <<"$", "{", "j", "}">>, <<"$", "{", "k", "}">>}

InitExpand ==
  /\ config \in Documents
  /\ env \in {[key \in keys |-> IF key = <<"k">> THEN vk ELSE vj] : keys \in {{<<"k">>}, {<<"k">>, <<"j">>}}, vk \in EnvValues, vj \in EnvValues}
  /\ build = BuildStart(<<>>)
  /\ app = [pc |-> "new", expandedConfig |-> config]
  /\ svc = <<>> /\ runners = <<>> /\ docker = {} /\ images = {} /\ dq = <<>> /\ joins = <<>> /\ trace = <<>> /\ crashed = FALSE
  /\ server = FirstLaunch

\* Configuration.prototype.buildApplication, up to new Application
BuildApplication ==
  /\ app.pc = "new"
  /\ app' = IF Returns(config, env) THEN [pc |-> "expanded", expandedConfig |-> recurse(config, env)]
            ELSE [pc |-> "hangs", expandedConfig |-> config]
  /\ UNCHANGED <<config, build, svc, runners, docker, images, dq, joins, trace, crashed, server, env>>

NextExpand == BuildApplication

SpecExpand == InitExpand /\ [][NextExpand]_vars

(***************************************************************************)
(* SpecPorts: Service._SplitHostPort over the values a manifest may give   *)
(* for a port: a number or a string.  In this specification config is the  *)
(* value and app holds the result                                          *)
(***************************************************************************)
\* String.prototype.indexOf(ch): positions count from 0, -1 when there is none
indexOf(str, ch) ==
  IF \A i \in 1..Len(str) : str[i] # ch THEN -1
  ELSE (CHOOSE i \in 1..Len(str) : str[i] = ch /\ \A j \in 1..(i - 1) : str[j] # ch) - 1

\* String.prototype.slice(from, to), positions counted from 0
slice(str, from, to) == SubSeq(str, from + 1, to)

RECURSIVE toString(_)
\* Number.prototype.toString of a whole number that is not negative
toString(n) == IF n < 10 THEN IndexText(n) ELSE toString(n \div 10) \o IndexText(n % 10)

\* Service.prototype._SplitHostPort
SplitHostPort(value) ==
  IF IsA(value, "number") THEN [HostPort |-> toString(value.number)]
  ELSE IF IsA(value, "string")
       THEN LET index == indexOf(value.string, ":")
            IN IF index > 0
               THEN [HostIp |-> slice(value.string, 0, index), HostPort |-> slice(value.string, index + 1, Len(value.string))]
               ELSE [HostIp |-> <<"0", ".", "0", ".", "0", ".", "0">>, HostPort |-> value.string]
       ELSE value

\* the longest string and the highest number among the inputs
MaxPortText == 5

MaxPort == 120

\* the characters of the strings of the inputs
PortChars == {"1", "8", ".", ":"}

RECURSIVE PortTexts(_)
PortTexts(n) == IF n = 0 THEN {<<>>} ELSE PortTexts(n - 1) \cup {Append(t, ch) : t \in PortTexts(n - 1), ch \in PortChars}

InitPorts ==
  /\ config \in {[string |-> text] : text \in PortTexts(MaxPortText)} \cup {[number |-> n] : n \in 0..MaxPort}
  /\ app = [pc |-> "new"]
  /\ build = BuildStart(<<>>)
  /\ svc = <<>> /\ runners = <<>> /\ docker = {} /\ images = {} /\ dq = <<>> /\ joins = <<>> /\ trace = <<>> /\ crashed = FALSE
  /\ server = FirstLaunch
  /\ env = [kills |-> 0, probes |-> "healthy", errors |-> 0]

\* createAndStartContainer fills startOpts.PortBindings[port]
BindPort ==
  /\ app.pc = "new"
  /\ app' = [pc |-> "bound", PortBinding |-> SplitHostPort(config)]
  /\ UNCHANGED <<config, build, svc, runners, docker, images, dq, joins, trace, crashed, server, env>>

NextPorts == BindPort

SpecPorts == InitPorts /\ [][NextPorts]_vars

(***************************************************************************)
(* SpecDetach: etcd and web-app; web-app has health probes, which answer   *)
(* healthy, late or soon; the container of etcd is killed once, at any     *)
(* time.  The run is followed until web-app counts a failure               *)
(***************************************************************************)
\* the manifest of etcd and web-app in which only web-app has health tests
Probed == [Manifest(1, 1, FALSE, FALSE, TRUE) EXCEPT ![1].Health = FALSE]

InitDetach == InitSystem(Probed, {}, {1, 2}, [kills |-> 1, probes |-> "healthy", errors |-> 0])

\* the container of a service that others depend on dies
KillEarly == \E c \in docker : (\E d \in DependedUpon : c.Name = createContainerName(config, d, 0, TRUE)) /\ Kill(c)

NextDetach ==
  \/ Launch
  \/ \E s \in DOMAIN svc : ProcessQueue(s)
  \/ EngineOk
  \/ \E r \in DOMAIN runners : Tick(r)
  \/ \E r \in DOMAIN runners : ProbeDone(r, TRUE)
  \/ KillEarly

\* no service that depends on another has counted a failure
DependentsIntact == \A s \in DOMAIN svc : config[s].Dependencies # {} => svc[s].recentFailures = 0

SpecDetach == InitDetach /\ [][DependentsIntact /\ NextDetach]_vars

(***************************************************************************)
(* SpecDeploy: etcd is a hard deploy and web-app depends on it; the daemon  *)
(* starts over whatever containers an earlier run left behind              *)
(***************************************************************************)
HardEtcd == Manifest(1, 1, TRUE, FALSE, FALSE)

\* the containers an earlier run left behind: of the previous options of
\* etcd, and of the previous or the current options of web-app
LeftBehind == {CreateContainerNameFor(HardEtcd, s, OldHash, 0, TRUE) : s \in {1, 2}} \cup {createContainerName(HardEtcd, 2, 0, TRUE)}

InitDeploy ==
  \E dk \in UNION {DockerStates(names) : names \in SUBSET LeftBehind}, errors \in 0..MaxFaults :
    InitSystem(HardEtcd, dk, {1, 2}, [kills |-> 0, probes |-> "healthy", errors |-> errors])

NextDeploy ==
  \/ Launch
  \/ \E s \in DOMAIN svc : ProcessQueue(s)
  \/ EngineOk
  \/ EngineError
  \/ \E r \in DOMAIN runners : Tick(r)

SpecDeploy == InitDeploy /\ [][NextDeploy]_vars

(***************************************************************************)
(* SpecUpgrade: the first Application runs etcd; the manifest changes and  *)
(* the second Application runs etcd with other options and a web-app that  *)
(* depends on it.  Docker holds the image of the first Application and any *)
(* of the images of the second; one engine call may end in an error.  The  *)
(* rollout is followed until a service loses a container or the launch of  *)
(* the second Application ends.                                            *)
(***************************************************************************)
Upgrade ==
  <<[Key |-> <<"e">>, Dependencies |-> {}, Scale |-> 1, HardDeploy |-> FALSE, Health |-> FALSE, Hash |-> <<"a", "1">>, App |-> 1],
    [Key |-> <<"e">>, Dependencies |-> {}, Scale |-> 1, HardDeploy |-> FALSE, Health |-> FALSE, Hash |-> <<"c", "3">>, App |-> 2],
    [Key |-> <<"w">>, Dependencies |-> {2}, Scale |-> 1, HardDeploy |-> FALSE, Health |-> FALSE, Hash |-> <<"b", "2">>, App |-> 2]>>

InitUpgrade ==
  \E img \in SUBSET {2, 3}, errors \in 0..MaxFaults :
    /\ config = Upgrade
    /\ build = BuildAll(Upgrade, BuildStart(Upgrade))
    /\ svc = [s \in DOMAIN Upgrade |-> NewService]
    /\ runners = <<>> /\ docker = {} /\ images = {1} \cup img /\ dq = <<>> /\ joins = <<>>
    /\ app = [pc |-> "none", idx |-> 0] /\ trace = <<>> /\ crashed = FALSE
    /\ server = IdleServer
    /\ env = [kills |-> 0, probes |-> "healthy", errors |-> errors]

NextUpgrade ==
  \/ ConfigChanged
  \/ ProcessTask
  \/ \E s \in DOMAIN svc : ProcessQueue(s)
  \/ EngineOk
  \/ EngineError
  \/ \E r \in DOMAIN runners : Tick(r)
  \/ PullStreamEnd

\* no service has lost a container and the launch of the last Application has
\* not ended
Underway == Calm /\ ~(server.built = NumApps /\ app.pc \in {"done", "failed"})

SpecUpgrade == InitUpgrade /\ [][Underway /\ NextUpgrade]_vars

(***************************************************************************)
(* SpecNames: two services that do not depend on each other, under names   *)
(* that are unrelated, that end alike, or that differ in a character the   *)
(* container name rewrites; launched from nothing or over their running    *)
(* containers, and followed until a service loses a container              *)
(***************************************************************************)
\* the names of the two services
NamePairs == {<< <<"e">>, <<"w">> >>, << <<"a", "b">>, <<"b">> >>, << <<"a", ".", "b">>, <<"a", "-", "b">> >>}

\* the manifest of SpecIndependent under the names given
Named(keys) == [s \in DOMAIN Independent |-> [Independent[s] EXCEPT !.Key = keys[s]]]

InitNames ==
  \E keys \in NamePairs : \E dk \in {{}, AllRunning(Named(keys))} :
    InitSystem(Named(keys), dk, {1, 2}, [kills |-> 0, probes |-> "healthy", errors |-> 0])

NextNames ==
  \/ Launch
  \/ \E s \in DOMAIN svc : ProcessQueue(s)
  \/ EngineOk
  \/ \E r \in DOMAIN runners : Tick(r)

SpecNames == InitNames /\ [][Calm /\ NextNames]_vars

(***************************************************************************)
(* SpecScale: etcd with one replica and a health check, and an independent *)
(* web-app with two replicas, launched from nothing or over a container of *)
(* the previous options of web-app; the probes of etcd answer healthy,     *)
(* after any time                                                          *)
(***************************************************************************)
\* the manifest of SpecIndependent with a health check of the first service
\* and two replicas of the second
Scaled == [Independent EXCEPT ![1].Health = TRUE, ![2].Scale = MaxScale]

\* a running container of the previous options of web-app
OldWeb == NumberContainers({[Id |-> 0, Name |-> CreateContainerNameFor(Scaled, 2, OldHash, 0, TRUE), Running |-> TRUE, Links |-> <<>>]}, 1)

InitScale == \E dk \in {{}, OldWeb} : InitSystem(Scaled, dk, {1, 2}, [kills |-> 0, probes |-> "healthy", errors |-> 0])

NextScale ==
  \/ Launch
  \/ \E s \in DOMAIN svc : ProcessQueue(s)
  \/ EngineOk
  \/ \E r \in DOMAIN runners : Tick(r)
  \/ \E r \in DOMAIN runners : ProbeDone(r, TRUE)

SpecScale == InitScale /\ [][Calm /\ NextScale]_vars

(***************************************************************************)
(* SpecSelect: isOldContainer of service e, applied to one entry of the    *)
(* list of containers, for names of every make                             *)
(***************************************************************************)
\* the pieces a listed name is made of: a parent (the name of a link target
\* has two slashes), an owner, the hash of its options, an end
NameParents == {<<>>, <<"p", "/">>}

NameOwners == {<<"e">>, <<"w">>, <<"w", "e">>}

NameHashes == {Single(1, FALSE, FALSE)[1].Hash, OldHash}

NameEnds == {CONTAINER_POSTFIX, <<>>, <<"_", "k", "i", "x">>}

ListedNames == {p \o ReplaceNameChars(o \o <<"-">> \o h) \o <<"_", "_", "0">> \o e : p \in NameParents, o \in NameOwners, h \in NameHashes, e \in NameEnds}

InitSelect ==
  \E name \in ListedNames, force \in BOOLEAN :
    /\ config = Single(1, FALSE, FALSE)
    /\ app = [pc |-> "listed", containerInfo |-> [Id |-> 1, Name |-> name, Running |-> TRUE, Links |-> <<>>], force |-> force, old |-> FALSE]
    /\ build = BuildStart(<<>>)
    /\ svc = <<>> /\ runners = <<>> /\ docker = {} /\ images = {} /\ dq = <<>> /\ joins = <<>> /\ trace = <<>> /\ crashed = FALSE
    /\ server = IdleServer
    /\ env = [kills |-> 0, probes |-> "healthy", errors |-> 0]

\* _.filter(containers, isOldContainer), for one entry
FilterOld ==
  /\ app.pc = "listed"
  /\ app' = [app EXCEPT !.pc = "filtered", !.old = isOldContainer(config, 1, app.force, app.containerInfo)]
  /\ UNCHANGED <<config, build, svc, runners, docker, images, dq, joins, trace, crashed, server, env>>

NextSelect == FilterOld

SpecSelect == InitSelect /\ [][NextSelect]_vars

(***************************************************************************)
(* SpecLive: two services, the second depending on the first or not, with  *)
(* one or two replicas and with or without hard deploy, launched from      *)
(* nothing with an engine that answers every call and never fails          *)
(***************************************************************************)
\* etcd and web-app with the dependencies, replicas and hard deploy given
Shaped(deps, scale1, scale2, hard1, hard2) == [Manifest(scale1, scale2, hard1, hard2, FALSE) EXCEPT ![2].Dependencies = deps]

\* the replicas of the two services
ScalePairs == {<<1, 1>>, <<1, MaxScale>>, <<MaxScale, 1>>}

InitLive ==
  \E deps \in {{}, {1}}, sc \in ScalePairs, hard1 \in BOOLEAN, hard2 \in BOOLEAN :
    /\ sc = <<1, 1>> \/ (deps = {1} /\ ~hard1 /\ ~hard2)
    /\ InitSystem(Shaped(deps, sc[1], sc[2], hard1, hard2), {}, {1, 2}, [kills |-> 0, probes |-> "healthy", errors |-> 0])

NextLive ==
  \/ Launch
  \/ \E s \in DOMAIN svc : ProcessQueue(s)
  \/ EngineOk
  \/ \E r \in DOMAIN runners : Tick(r)

\* the launch goes on, every workQueue works, the engine answers and every
\* timer fires
FairnessLive ==
  /\ WF_vars(Launch) /\ WF_vars(EngineOk)
  /\ \A s \in ServiceIds : WF_vars(s \in DOMAIN svc /\ ProcessQueue(s))
  /\ \A r \in 1..(MaxScale + 1) : WF_vars(r \in DOMAIN runners /\ Tick(r))

SpecLive == InitLive /\ [][NextLive]_vars /\ FairnessLive

(***************************************************************************)
(* SpecRegister: one service that registers its containers                 *)
(***************************************************************************)
\* the manifest cfg with registration switched on for every service
Registering(cfg) == [i \in DOMAIN cfg |-> cfg[i] @@ [Register |-> TRUE]]

InitRegister ==
  \E health \in BOOLEAN :
    \E dk \in AnyDocker(Single(1, FALSE, health)), img \in SUBSET {1}, e \in Surroundings(MaxFaults, "any") :
      InitSystem(Registering(Single(1, FALSE, health)), dk, img, e)

NextRegister ==
  \/ NextRunner
  \/ \E r \in DOMAIN runners : \E err \in BOOLEAN : RegistrationDone(r, err)

SpecRegister == InitRegister /\ [][NextRegister]_vars

(***************************************************************************)
(* SpecHealth: Health.check over probe lists and inspect payloads          *)
(***************************************************************************)
MaxProbes == 3

\* Utils.getHostPort: the HostPort of the first binding of the container
\* port, "" standing for undefined
getHostPort(containerPort, inspectData) ==
  LET ports == inspectData.Ports
  IN IF containerPort \notin DOMAIN ports THEN ""
     ELSE IF Len(ports[containerPort]) < 1 THEN "" ELSE ports[containerPort][1].HostPort

\* done of async.each: the first error goes to the callback of Health.check
\* at once, else the callback runs when every test has called back
Health_each(h, err) ==
  IF err
  THEN IF h.finished THEN h ELSE [h EXCEPT !.finished = TRUE, !.calls = @ + 1, !.isHealthy = FALSE]
  ELSE LET h1 == [h EXCEPT !.completed = @ + 1]
       IN IF h1.completed >= Len(h.tests) /\ ~h1.finished
          THEN [h1 EXCEPT !.finished = TRUE, !.calls = @ + 1, !.isHealthy = h1.healthy]
          ELSE h1

\* the callback Health.check hands to _checkHttp
Health_checked(h, err, isHealthy) == Health_each([h EXCEPT !.healthy = @ /\ isHealthy], err)

\* a _checkHttp that lets a probe without a host port pass
Health_checkHttp_Lenient(h, i) ==
  LET containerPort == IF h.tests[i].Http.Port # "" THEN h.tests[i].Http.Port ELSE "80"
  IN IF getHostPort(containerPort, h.data) = "" THEN Health_checked(h, FALSE, TRUE)
     ELSE [h EXCEPT !.answers[i] = "pending"]

\* Health.prototype._checkHttp up to the request: no host port, not healthy
Health_checkHttp(h, i) ==
  LET containerPort == IF h.tests[i].Http.Port # "" THEN h.tests[i].Http.Port ELSE "80"
  IN IF getHostPort(containerPort, h.data) = "" THEN Health_checked(h, FALSE, FALSE)
     ELSE [h EXCEPT !.answers[i] = "pending"]

\* the iterator of Health.check for the tests from i on, in list order
RECURSIVE Health_tests(_, _)
Health_tests(h, i) ==
  IF i > Len(h.tests) THEN h
  ELSE Health_tests(IF "Http" \in DOMAIN h.tests[i] THEN Health_checkHttp(h, i) ELSE Health_each(h, FALSE), i + 1)

\* Health.prototype.check: async.each calls back at once on an empty list
Health_check(h) ==
  IF Len(h.tests) = 0 THEN [h EXCEPT !.pc = "checking", !.finished = TRUE, !.calls = @ + 1, !.isHealthy = h.healthy]
  ELSE Health_tests([h EXCEPT !.pc = "checking"], 1)

\* the probes a manifest may list: Http with or without a Port, and another kind
HealthTests == {[Http |-> [Port |-> "4001/tcp"]], [Http |-> [Port |-> ""]], [Tcp |-> [Port |-> "4001/tcp"]]}

\* the inspect payloads: no ports, a port without binding, with an empty
\* HostPort, bound, and bound next to port 80
InspectPayloads ==
  {[Ports |-> <<>>],
   [Ports |-> [p \in {"4001/tcp"} |-> <<>>]],
   [Ports |-> [p \in {"4001/tcp"} |-> <<[HostPort |-> ""]>>]],
   [Ports |-> [p \in {"4001/tcp"} |-> <<[HostPort |-> "49153"]>>]],
   [Ports |-> [p \in {"4001/tcp", "80"} |-> <<[HostPort |-> "49153"]>>]]}

InitHealth ==
  \E n \in 0..MaxProbes : \E tests \in [1..n -> HealthTests], data \in InspectPayloads :
    /\ config = Single(1, FALSE, TRUE)
    /\ app = [pc |-> "tick", tests |-> tests, data |-> data, healthy |-> TRUE, answers |-> [i \in 1..n |-> "none"],
              completed |-> 0, finished |-> FALSE, calls |-> 0, isHealthy |-> FALSE]
    /\ build = BuildStart(<<>>)
    /\ svc = <<>> /\ runners = <<>> /\ docker = {} /\ images = {} /\ dq = <<>> /\ joins = <<>> /\ trace = <<>> /\ crashed = FALSE
    /\ server = IdleServer
    /\ env = [kills |-> 0, probes |-> "any", errors |-> 0]

\* _checkHealth calls self.health.check(data, cb)
HealthCheck ==
  /\ app.pc = "tick"
  /\ app' = Health_check(app)
  /\ UNCHANGED <<config, build, svc, runners, docker, images, dq, joins, trace, crashed, server, env>>

\* the request of _checkHttp for test i answers: an error, or a status code
HttpResponse(i, answer) ==
  /\ app.pc = "checking" /\ i \in DOMAIN app.answers /\ app.answers[i] = "pending"
  /\ app' = Health_checked([app EXCEPT !.answers[i] = answer], answer = "error", answer = "200")
  /\ UNCHANGED <<config, build, svc, runners, docker, images, dq, joins, trace, crashed, server, env>>

NextHealth ==
  \/ HealthCheck
  \/ \E i \in 1..MaxProbes : \E answer \in {"200", "500", "error"} : HttpResponse(i, answer)

SpecHealth == InitHealth /\ [][NextHealth]_vars

(***************************************************************************)
(* Properties of SpecBuild                                                 *)
(***************************************************************************)
RECURSIVE ReachIn(_, _, _)
\* names reachable from the names in `from` along Dependencies in at most k steps
ReachIn(cfg, from, k) == IF k = 0 THEN from ELSE ReachIn(cfg, from \cup UNION {cfg[d].Dependencies : d \in from}, k - 1)

TransitiveDependencies(cfg, s) == ReachIn(cfg, cfg[s].Dependencies, Cardinality(DOMAIN cfg))

HasCycle(cfg) == \E s \in DOMAIN cfg : s \in TransitiveDependencies(cfg, s)

SortEnded == build.pc \in {"throw", "link", "built"}

\* C1: when construction succeeds, Application.services holds every manifest
\* service exactly once and every direct or transitive dependency of a service
\* stands earlier in the list than the service itself.
C1_TopologicalOrder ==
  build.pc = "built" =>
    /\ Len(build.sortedList) = Cardinality(DOMAIN config)
    /\ Range(build.sortedList) = DOMAIN config
    /\ \A s \in DOMAIN config : \A d \in TransitiveDependencies(config, s) :
         IndexOf(build.sortedList, d) < IndexOf(build.sortedList, s)

\* C2: _buildServices throws 'Circular dependencies' exactly when the
\* dependency relation of the manifest has a cycle; an acyclic manifest is
\* sorted within the 2*N cap.
C2_CircularIffCycle == SortEnded => ((build.pc = "throw") <=> HasCycle(config))

(***************************************************************************)
(* Properties of the launched system                                       *)
(***************************************************************************)
\* the number of times the runner r emits ev in the events tr of a step
EmitCount(tr, r, ev) ==
  Cardinality({i \in 1..Len(tr) : tr[i].e = "emit" /\ tr[i].kind = "container" /\ tr[i].src = r /\ tr[i].ev = ev})

\* the step found the container of r healthy
LoggedHealthy(tr, r) == \E i \in 1..Len(tr) : tr[i].e = "log" /\ tr[i].r = r

\* the service s handed one of the calls ops to the engine in the events tr
Issues(tr, ops, s) == \E i \in 1..Len(tr) : tr[i].e = "issue" /\ tr[i].op \in ops /\ tr[i].svc = s

\* C3: over its life a ContainerRunner emits `started` at most once and
\* `stopped` at most once; a health check that finds the container healthy
\* leaves the runner with exactly one `started` emitted, and `started` is never
\* emitted by a step that did not find the container healthy.
C3_RunnerEvents ==
  [][\A r \in DOMAIN runners :
       /\ runners[r].nStarted + EmitCount(trace', r, "started") <= 1
       /\ runners[r].nStopped + EmitCount(trace', r, "stopped") <= 1
       /\ LoggedHealthy(trace', r) => (r \in DOMAIN runners' /\ runners'[r].nStarted = 1)
       /\ EmitCount(trace', r, "started") > 0 => LoggedHealthy(trace', r)]_vars

\* a runner that emitted `started` once and went on through failed probes
C3_Witness == \E r \in DOMAIN runners : runners[r].nStarted = 1 /\ runners[r].healthFailures > 1

\* C4: the runner list of a Service never holds more than Scale runners and no
\* two of its runners stand for the same replica index.
C4_AtMostScale ==
  \A s \in DOMAIN svc :
    /\ Len(svc[s].containers) <= config[s].Scale
    /\ \A i, j \in 1..Len(svc[s].containers) :
         i # j => runners[svc[s].containers[i]].index # runners[svc[s].containers[j]].index

\* Application._launchServices is inside Service.launch of service s and the
\* first step of that launch, the collection, has been executed
LaunchBetweenSteps(s) ==
  /\ app.pc = "launch" /\ build.sortedList[app.idx] = s
  /\ svc[s].work # Null /\ svc[s].work.kind # "collect"
  /\ \A i \in 1..Len(svc[s].queue) : svc[s].queue[i].kind # "collect"

\* C5: once the launch of a service has executed its first step and until its
\* last step has ended, the work queue of that service executes no work item
\* that an event handler submitted (such items carry a callback that does
\* nothing).
C5_NoInterleave == \A s \in DOMAIN svc : LaunchBetweenSteps(s) => svc[s].work.k.t # "none"

\* some service handed one of the calls ops to the engine in the events tr
IssuesAny(tr, ops) == \E i \in 1..Len(tr) : tr[i].e = "issue" /\ tr[i].op \in ops

\* C6: launching over running replicas of the same manifest hands no create,
\* start, stop, remove or image pull to the engine, and no service ever holds
\* more runners than Scale, also when _startContainers runs again.
C6_IdempotentLaunch ==
  [][/\ ~IssuesAny(trace', {"create", "start", "stop", "remove", "createImage"})
     /\ \A s \in DOMAIN svc : Len(svc'[s].containers) <= config[s].Scale]_vars

\* the containers of an older generation of service s that docker holds
OldGeneration(dk, s) == {c \in dk : isOldContainer(config, s, FALSE, c)}

\* C7: when a service with HardDeploy whose collection adopted no container
\* hands a create to the engine, docker holds no container of an older
\* generation of that service any more.
C7_HardDeployRetiresFirst ==
  [][\A s \in DOMAIN svc :
       (config[s].HardDeploy /\ svc[s].adopted = 0 /\ Issues(trace', {"create"}, s)) => OldGeneration(docker', s) = {}]_vars

\* a hard deploy that removed an old container and now creates the new one
C7_Witness ==
  \E s \in DOMAIN svc : config[s].HardDeploy /\ svc[s].adopted = 0 /\ svc[s].hard /\ svc[s].retired /\ Issues(trace, {"create"}, s)

\* C8: a Service hands a create or a start to the engine only while every
\* transitive dependency has a running runner.
C8_DependenciesUp ==
  [][\A s \in DOMAIN svc :
       Issues(trace', {"create", "start"}, s) => \A d \in build.dependencies[s] : Service_isRunning(Heap, d)]_vars

\* the events of the last step hold an event of the kind e with these fields
Happened(e, kind, src, ev) == \E i \in 1..Len(trace) : trace[i] = [e |-> e, kind |-> kind, src |-> src, ev |-> ev]

\* the last step was the kill
Killed == \E i \in 1..Len(trace) : trace[i].e = "kill"

\* the runner of the dependency d and d itself emitted `stopped` and every
\* dependent of d was told to stop
Cascade(d) ==
  /\ \E r \in RunnerIds : Happened("emit", "container", r, "stopped")
  /\ Happened("emit", "service", d, "stopped")
  /\ \A t \in DOMAIN config : d \in config[t].Dependencies => \E i \in 1..Len(trace) : trace[i] = [e |-> "stop", svc |-> t]

\* every replica index of service s is watched by a running runner
AllReplicasRunning(s) ==
  \A index \in 0..(config[s].Scale - 1) :
    \E i \in 1..Len(svc[s].containers) :
      runners[svc[s].containers[i]].index = index /\ Container_isRunning(Heap, svc[s].containers[i])

C10_EventuallyQuarantine == <>(\E s \in DOMAIN svc : svc[s].recentFailures > MAX_FAILURES)

(***************************************************************************)
(* Properties of SpecQuarantine                                            *)
(***************************************************************************)
\* C11: a Service whose recentFailures exceeds MAX_FAILURES hands no create
\* and no start to the engine, whatever events arrive and whether or not
\* another replica is still running
C11_QuarantineIsFinal ==
  [][\A s \in DOMAIN svc : svc[s].recentFailures > MAX_FAILURES => ~Issues(trace', {"create", "start"}, s)]_vars

(***************************************************************************)
(* Properties of SpecCleanup                                               *)
(***************************************************************************)
\* the containers the calls op of the cleanup of the Application, handed to
\* the engine in this step, are aimed at
CleanupTargets(tr, dk, ops) ==
  UNION {Lookup(dk, tr[i].ref) : i \in {j \in 1..Len(tr) : tr[j].e = "issue" /\ tr[j].op \in ops /\ tr[j].svc = 0}}

\* C12: the cleanup of obsolete containers hands no stop and no remove to the
\* engine for a container whose own name lacks CONTAINER_POSTFIX, whatever
\* further names the engine lists for it
C12_CleanupScope ==
  [][\A c \in CleanupTargets(trace', docker', {"stop", "remove"}) : Contains(DockerName(c.Name), CONTAINER_POSTFIX)]_vars

(***************************************************************************)
(* Properties of SpecImages                                                *)
(***************************************************************************)
\* the image:tag of the services of the manifest
CurrentImages == {Service_getImageName(config, s) : s \in DOMAIN config}

\* C13: image cleanup never asks the engine to remove the current image
\* (image:tag) of a service of the Application, also when several services
\* use one repository with different tags
C13_CurrentImageKept ==
  [][\A i \in 1..Len(trace') : (trace'[i].e = "issue" /\ trace'[i].op = "imgRemove") => trace'[i].ref.v \notin CurrentImages]_vars

\* the repository tags of the repository of service s among the images imgs
TagsOf(imgs, s) == {t \in UNION {Range(image.RepoTags) : image \in imgs} : t.repo = Service_getImageNameWithoutTag(config, s)}

\* the images among imgs that have a tag of the repository of service s
ImagesOf(imgs, s) == {image \in imgs : \E t \in Range(image.RepoTags) : t.repo = Service_getImageNameWithoutTag(config, s)}

\* image cleanup has ended and every removal it asked for has succeeded
CleanedUp == app.pc = "cleaned" /\ app.removedCount = Cardinality(app.requested)

\* C14: after image cleanup with all removals succeeding, at most
\* IMAGES_TO_KEEP tagged images of the repository of each service remain: the
\* current one and the non-current ones of the highest versions; every image
\* removed has a lower version than every non-current image that remains
C14_ImageRetention ==
  CleanedUp =>
    \A s \in DOMAIN config :
      LET current == Service_getImageName(config, s)
          gone == TagsOf(app.listed, s) \ TagsOf(images, s)
          kept == {t \in TagsOf(images, s) \ {current} : semverValid(t.tag)}
      IN /\ Cardinality(ImagesOf(images, s)) <= IMAGES_TO_KEEP
         /\ current \in TagsOf(images, s)
         /\ \A x \in gone, y \in kept : x.tag < y.tag

(***************************************************************************)
(* Properties of Application.isUp                                          *)
(***************************************************************************)
\* C15: Application.isUp() is true exactly when there is at least one service
\* and every enabled service has all its Scale replicas running, each watched
\* by a runner that is started and not stopped
C15_IsUpIffAllReplicas ==
  Alive =>
    (Application_isUp(Heap, 1) <=>
       (Len(build.sortedList) > 0 /\ \A s \in DOMAIN svc : Service_isEnabled(s) => AllReplicasRunning(s)))

(***************************************************************************)
(* Properties of SpecIndependent                                           *)
(***************************************************************************)
\* the services whose Service.launch has reached its start step
Launched == {s \in DOMAIN svc : svc[s].launched}

\* C16: when the image pull or the launch of one service ends in an error,
\* Application.launch still launches every service that does not depend on
\* it: with one failure among independent services, all but one get launched
C16_OthersStillLaunch == (app.pc = "failed") ~> (Cardinality(Launched) >= Len(config) - 1)

\* C17: the Server replaces its active Application only by one whose launch
\* completed without error; after a failed launch the previously active
\* Application is still the active one.
C17_SwapOnlyOnSuccess ==
  [][server'.application # server.application =>
       \E i \in 1..Len(trace') : trace'[i].e = "launched" /\ trace'[i].app = server'.application /\ trace'[i].err = ErrNone]_vars

\* the timer of a runner of service s fires and the runner begins a check
BeginsTick(s) ==
  \E r \in DOMAIN runners :
    /\ runners[r].svc = s /\ runners[r].pc = "timer"
    /\ r \in DOMAIN runners' /\ runners'[r].pc = "inspect"

\* C18: once an Application is marked stopping, no runner of its services
\* begins a new tick and none of its services issues a create or a start, also
\* not in reaction to the `stopped` of a tick that was in flight at the mark.
C18_StoppingIsQuiet ==
  [][\A s \in DOMAIN svc : svc[s].stopping => ~BeginsTick(s) /\ ~Issues(trace', {"create", "start"}, s)]_vars

\* the engine calls of a queue or of the events of a step, without callbacks
Calls(q) == [i \in 1..Len(q) |-> [op |-> q[i].op, ref |-> q[i].ref]]

\* the calls a step handed to dockerQueue, in the order of the pushes
Issued(tr) == Calls(SelectSeq(tr, LAMBDA x : x.e = "issue"))

\* the calls whose answer a step has handled
Executed(tr) == Calls(SelectSeq(tr, LAMBDA x : x.e = "exec"))

\* a step completes at most one call, the one that waited longest, and the
\* calls it submits join the queue behind all that wait
SerialStep ==
  LET done == Executed(trace')
  IN /\ Len(done) <= 1
     /\ done # <<>> => dq # <<>> /\ done[1] = Calls(dq)[1]
     /\ Calls(dq') = (IF done = <<>> THEN Calls(dq) ELSE Tail(Calls(dq))) \o Issued(trace')

Notified(tr) == \E i \in 1..Len(tr) : tr[i].e = "changed"

Retired(tr) == {tr[i] : i \in {j \in 1..Len(tr) : tr[j].e = "retire"}}

\* the calls of one stopAndRemoveContainer and the result it reported agree
\* with the contract: inspect, stop if running, inspect, remove, as far as it
\* got; an error other than noSuchContainer is the last call and the result
SarContract(ev) ==
  LET c == ev.calls
      n == Len(c)
      all == IF c[1].err = ErrNone /\ c[1].running THEN <<"inspect", "stop", "inspect", "remove">> ELSE <<"inspect", "inspect", "remove">>
      failedAt == {i \in 1..n : c[i].err \notin {ErrNone, ErrNoSuch}}
  IN /\ n >= 1 /\ n <= Len(all)
     /\ [i \in 1..n |-> c[i].op] = SubSeq(all, 1, n)
     /\ failedAt \subseteq {n}
     /\ ev.err = (IF failedAt = {} THEN ErrNone ELSE c[n].err)
     /\ failedAt = {} => (c[n].op = "remove" \/ (n > 1 /\ c[n].op = "inspect" /\ c[n].err = ErrNoSuch))

\* C21: stopAndRemoveContainer(id) inspects, stops only a running container,
\* inspects again and removes; whatever the engine answers, it reports success
\* when every step that failed did so with noSuchContainer, it reports the
\* error of the first step that failed otherwise, and it calls nothing after
\* that step, so no remove after such an error of the inspect or the stop.
C21_StopAndRemove == [][\A ev \in Retired(trace') : SarContract(ev)]_vars

\* a container vanished between the inspect and the stop: the stop and the
\* second inspect answered noSuchContainer and success was reported
C21_Witness ==
  \E ev \in Retired(trace) :
    /\ ev.err = ErrNone /\ Len(ev.calls) = 3
    /\ ev.calls[2].op = "stop" /\ ev.calls[2].err = ErrNoSuch /\ ev.calls[3].err = ErrNoSuch

(***************************************************************************)
(* Properties of the health budget of a Container                          *)
(***************************************************************************)
\* the probes of runner r answer in this step, and the answer is: not healthy
UnhealthyTick(r) ==
  /\ runners[r].pc = "probe"
  /\ r \in DOMAIN runners' => runners'[r].pc # "probe"
  /\ ~LoggedHealthy(trace', r)

\* runner r asks the engine to stop its container in this step
RequestsStop(r) == runners[r].pc # "stop" /\ r \in DOMAIN runners' /\ runners'[r].pc = "stop"

\* the stop that runner r asked for is answered in this step
StopAnswered(r) == runners[r].pc = "stop" /\ dq # <<>> /\ dq[1].k = [t |-> "tickStop", r |-> r] /\ Executed(trace') # <<>>

\* the health budget of runner r over one step
HealthBudgetStep(r) ==
  /\ runners[r].healthFailures \in 0..MAX_HEALTH_FAILURES
  /\ (UnhealthyTick(r) /\ ~runners[r].started) => runners' = [runners EXCEPT ![r].pc = "timer"]
  /\ (UnhealthyTick(r) /\ runners[r].started /\ runners[r].healthFailures < MAX_HEALTH_FAILURES) =>
       /\ runners' = [runners EXCEPT ![r].pc = "timer", ![r].healthFailures = @ + 1, ![r].watchTimeout = LOW_WATCH_TIMEOUT]
       /\ ~IssuesAny(trace', {"stop"})
  /\ LoggedHealthy(trace', r) => (r \in DOMAIN runners' /\ runners'[r].healthFailures = 0)
  /\ RequestsStop(r) <=> (UnhealthyTick(r) /\ runners[r].started /\ runners[r].healthFailures = MAX_HEALTH_FAILURES)
  /\ StopAnswered(r) => EmitCount(trace', r, "stopped") = 1

\* C22: healthFailures of a runner stays within 0..MAX_HEALTH_FAILURES; a tick
\* that is not healthy before the first healthy one counts nothing; one after
\* the start with fewer than MAX_HEALTH_FAILURES failures only adds one and
\* sets the interval to LOW_WATCH_TIMEOUT; a healthy tick sets the counter to
\* 0; the runner asks the engine to stop the container only on a tick that is
\* not healthy with the counter at MAX_HEALTH_FAILURES, and emits `stopped`
\* when that call is answered, with or without an error.
C22_HealthBudget == [][\A r \in DOMAIN runners : HealthBudgetStep(r)]_vars

\* the stop a runner asked for after its budget ran out failed, and the runner
\* emitted `stopped`
C22_Witness ==
  /\ \E i \in 1..Len(trace) : trace[i].e = "exec" /\ trace[i].op = "stop" /\ trace[i].err = ErrOther
  /\ \E r \in RunnerIds : EmitCount(trace, r, "stopped") = 1

(***************************************************************************)
(* Properties of the watch loop of a Container                             *)
(***************************************************************************)
\* the engine calls of ticks of runner r that wait in or are run by q
TickCalls(q, r) == {i \in 1..Len(q) : q[i].k.t \in {"tickInspect", "tickAttach", "tickStop"} /\ q[i].k.r = r}

\* what runner r of the runners rs has in flight: engine calls and probes
InFlight(q, rs, r) == Cardinality(TickCalls(q, r)) + (IF rs[r].pc = "probe" THEN 1 ELSE 0)

\* the watch loop of runner r over one step
WatchLoopStep(r) ==
  /\ InFlight(dq, runners, r) <= 1
  /\ runners[r].pc = "timer" => InFlight(dq, runners, r) = 0
  /\ r \in DOMAIN runners' => InFlight(dq', runners', r) <= 1
  /\ EmitCount(trace', r, "stopped") > 0 => (r \notin DOMAIN runners' /\ TickCalls(dq', r) = {})
  /\ (runners[r].started /\ r \in DOMAIN runners') => runners'[r].started

RECURSIVE ReplaceFrom(_, _, _)
\* the text from position i on, every occurrence of ${ key } in it replaced
\* by getValue(key) and every other character kept
ReplaceFrom(str, environment, i) ==
  IF i > Len(str) THEN <<>>
  ELSE IF MatchAt(str, i) # NoMatch
       THEN getValue(environment, MatchAt(str, i).key) \o ReplaceFrom(str, environment, MatchAt(str, i).end + 1)
       ELSE <<str[i]>> \o ReplaceFrom(str, environment, i + 1)

RECURSIVE Expanded(_, _)
\* a value with every string in it replaced so, keys, nesting and order kept
Expanded(value, environment) ==
  CASE IsA(value, "array") -> [value EXCEPT !.array = [i \in 1..Len(@) |-> Expanded(@[i], environment)]]
    [] IsA(value, "object") -> [value EXCEPT !.object = [i \in 1..Len(@) |-> [key |-> @[i].key, value |-> Expanded(@[i].value, environment)]]]
    [] IsA(value, "string") -> [value EXCEPT !.string = ReplaceFrom(@, environment, 1)]
    [] OTHER -> value

\* C24: expandVariables replaces every ${ key } occurrence of a string (white
\* space around the key allowed, several occurrences per string) by
\* getValue(key) and leaves every other character as it is; through
\* Utils.recurse it does so for every string of nested objects and arrays,
\* keeping keys, nesting and array order; a string without an occurrence is
\* returned unchanged.
C24_ExpandVariables == app.pc # "new" => (app.pc = "expanded" /\ app.expandedConfig = Expanded(config, env))

(***************************************************************************)
(* Properties of SpecPorts                                                 *)
(***************************************************************************)
\* the decimal digits of a text read as a number
DigitValue(ch) == CHOOSE d \in 0..9 : IndexText(d) = <<ch>>

RECURSIVE parseInt(_)
parseInt(text) == IF text = <<>> THEN 0 ELSE 10 * parseInt(SubSeq(text, 1, Len(text) - 1)) + DigitValue(text[Len(text)])

\* the string has a ":"
HasColon(text) == \E i \in 1..Len(text) : text[i] = ":"

\* C25: _SplitHostPort maps a string ip:port to HostIp, the text before the
\* first ":", and HostPort, the text after it; a string without ":" to HostIp
\* 0.0.0.0 and HostPort the string; a number to HostPort, its decimal text,
\* and no HostIp.
C25_SplitHostPort ==
  app.pc = "bound" =>
    LET result == app.PortBinding
    IN /\ (IsA(config, "string") /\ HasColon(config.string)) =>
            /\ DOMAIN result = {"HostIp", "HostPort"}
            /\ result.HostIp \o <<":">> \o result.HostPort = config.string
            /\ \A i \in 1..Len(result.HostIp) : result.HostIp[i] # ":"
       /\ (IsA(config, "string") /\ ~HasColon(config.string)) =>
            result = [HostIp |-> <<"0", ".", "0", ".", "0", ".", "0">>, HostPort |-> config.string]
       /\ IsA(config, "number") =>
            /\ DOMAIN result = {"HostPort"}
            /\ \A i \in 1..Len(result.HostPort) : \E d \in 0..9 : IndexText(d) = <<result.HostPort[i]>>
            /\ parseInt(result.HostPort) = config.number
            /\ Len(result.HostPort) > 1 => result.HostPort[1] # "0"

(***************************************************************************)
(* Properties of the events of a Service                                   *)
(***************************************************************************)
\* the Service s emits ev in the events tr
ServiceEmits(tr, s, ev) == \E i \in 1..Len(tr) : tr[i] = [e |-> "emit", kind |-> "service", src |-> s, ev |-> ev]

\* the runners in the list of service ss[s] that are started and not stopped
RunningListed(ss, rs, s) == {r \in Range(ss[s].containers) : rs[r].started /\ ~rs[r].stopped}

\* a runner of service s that is in the list of s emits `started` in this step
ListedRunnerStarts(s) ==
  \E r \in DOMAIN runners : runners[r].svc = s /\ r \in Range(svc[s].containers) /\ EmitCount(trace', r, "started") > 0

\* C26: a Service emits `started` on, and only on, a `started` of one of the
\* runners in its list that takes the number of its running runners from 0 to
\* 1, and `allStarted` on, and only on, such an event after which exactly Scale
\* different replicas of it are running; a runner that is no longer in the
\* list of the Service sets off neither.
C26_ServiceEvents ==
  [][\A s \in DOMAIN svc :
       /\ ServiceEmits(trace', s, "started") <=>
            (ListedRunnerStarts(s) /\ RunningListed(svc, runners, s) = {} /\ Cardinality(RunningListed(svc', runners', s)) = 1)
       /\ ServiceEmits(trace', s, "allStarted") <=>
            (ListedRunnerStarts(s) /\ Cardinality({runners'[r].index : r \in RunningListed(svc', runners', s)}) = config[s].Scale)]_vars

(***************************************************************************)
(* Properties of SpecDeploy                                                *)
(***************************************************************************)
\* the canonical names _createContainerName gives the replicas of service s,
\* for its current and its previous options
GeneratedFor(cfg, s) == {CreateContainerNameFor(cfg, s, hash, i, TRUE) : hash \in {cfg[s].Hash, OldHash}, i \in 0..(MaxScale - 1)}

\* the services whose stop this step has called, in the order of the calls
StopOrder(tr) == SelectSeq(tr, LAMBDA x : x.e = "stop")

\* the services that name s among their Dependencies
Dependents(s) == {d \in DOMAIN config : s \in config[d].Dependencies}

\* docker holds no container of a service that depends on s
DependentsGone(dk, s) == \A d \in Dependents(s) : \A c \in dk : c.Name \notin GeneratedFor(config, d)

\* service s works on the forced _stopOldContainers of its stop
ForcedRetire(ss, s) == ss[s].work # Null /\ ss[s].work.kind = "stopOld" /\ ss[s].work.force

\* a step that calls stop of s marks the runners of s and empties its list,
\* and calls stop of the dependents of s after that
StopMarks(s) ==
  (\E i \in 1..Len(StopOrder(trace')) : StopOrder(trace')[i].svc = s)
    => /\ svc'[s].containers = <<>>
       /\ \A r \in Range(svc[s].containers) : runners'[r].stopping
       /\ \A d \in Dependents(s) : \E i, j \in 1..Len(StopOrder(trace')) :
            i < j /\ StopOrder(trace')[i].svc = s /\ StopOrder(trace')[j].svc = d

\* an engine call of the forced retire of s finds the dependents' containers gone
StopWaits(s) == (ForcedRetire(svc', s) /\ Issues(trace', {"list", "inspect", "stop", "remove"}, s)) => DependentsGone(docker, s)

\* C27: Service.stop marks its runners stopping and empties the runner list,
\* then stops the services that depend on it, and stops and removes its own
\* containers (the current generation included) only after the containers of
\* all those dependents have been stopped and removed
C27_StopOrder == [][\A s \in DOMAIN svc : StopMarks(s) /\ StopWaits(s)]_vars

\* etcd removes its own container after the container of web-app was removed
C27_Witness ==
  /\ svc[2].retired
  /\ ForcedRetire(svc, 1)
  /\ Issues(trace, {"remove"}, 1)
  /\ \E c \in docker : c.Name \in GeneratedFor(config, 1)

(***************************************************************************)
(* Properties of SpecUpgrade                                               *)
(***************************************************************************)
\* the engine calls of Service.pullImage that wait for their answer
PullCalls(q) == {i \in 1..Len(q) : q[i].k.t \in {"pull1", "pull2", "pull3"}}

\* the pulls under way: a call in the queue or the stream of a pull being read
Pulling == Cardinality(PullCalls(dq)) + (IF app.pc = "stream" THEN 1 ELSE 0)

\* the callbacks of the tasks service s works on or holds in its workQueue
TaskCallbacks(ss, s) == {ss[s].queue[i].k.t : i \in 1..Len(ss[s].queue)} \cup (IF ss[s].work = Null THEN {} ELSE {ss[s].work.k.t})

\* Service.launch of s has been called
LaunchBegun(ss, s) == ss[s].launched \/ "launch1" \in TaskCallbacks(ss, s)

\* Service.launch of s has been called and has not called back
InLaunch(ss, s) == TaskCallbacks(ss, s) \cap {"launch1", "launch3"} # {}

\* the services of the Application of s that come before s in its list
Before(s) == {t \in Range(Services(AppOf(s))) : IndexOf(build.sortedList, t) < IndexOf(build.sortedList, s)}

\* the list of an Application names a service after the services it depends on
DependencyOrder == \A s \in DOMAIN config : config[s].Dependencies \subseteq Before(s)

\* one pull at a time, and the image of every service before it is there
PullsInOrder == Pulling <= 1 /\ \A i \in PullCalls(dq) : Before(dq[i].k.s) \subseteq images

\* a service is launched when every image of its Application is there, the
\* previous Application is stopping, and the launch of every service before
\* it has called back
LaunchesInOrder ==
  \A s \in DOMAIN svc : LaunchBegun(svc, s) =>
    /\ Range(Services(AppOf(s))) \subseteq images
    /\ (AppOf(s) = server.built => Pulling = 0)
    /\ \A t \in DOMAIN svc : AppOf(t) < AppOf(s) => svc[t].stopping
    /\ \A t \in Before(s) : svc[t].launched /\ ~InLaunch(svc, t)

\* the step that marks a service of the previous Application stopping: every
\* image of the new one is there and none of its services has been launched
MarksPrevious(s) ==
  (svc'[s].stopping /\ ~svc[s].stopping) =>
    /\ AppOf(s) < server.built
    /\ \A t \in Range(Services(server.built)) : t \in images' /\ ~LaunchBegun(svc, t)

\* C28: in Application.launch the images are pulled one at a time in
\* dependency order, no Service is launched before every pull has succeeded,
\* the previous Application is marked stopping after the pulls and before the
\* first Service launch, and the Services are launched one at a time in
\* dependency order
C28_LaunchPipeline == [][DependencyOrder' /\ PullsInOrder' /\ LaunchesInOrder' /\ \A s \in DOMAIN svc : MarksPrevious(s)]_vars

\* web-app is being launched after etcd: both images were pulled, etcd has
\* been launched and the previous Application is stopping
C28_Witness ==
  /\ server.built = 2 /\ app.pc = "launch"
  /\ InLaunch(svc, 3) /\ svc[2].launched /\ svc[1].stopping
  /\ \E i \in 1..Len(trace) : trace[i].e = "issue" /\ trace[i].op = "create" /\ trace[i].svc = 3

(***************************************************************************)
(* Properties of SpecNames                                                 *)
(***************************************************************************)
\* the containers that service s asks the engine to stop or to remove
Retires(tr, dk, s) == {c \in dk : \E i \in 1..Len(tr) : tr[i].e = "issue" /\ tr[i].op \in {"stop", "remove"} /\ tr[i].svc = s /\ tr[i].ref = ById(c.Id)}

\* C29: a service stops or removes only containers whose canonical name was
\* generated for it, never a container of another service, whatever the two
\* names are
C29_OwnContainersOnly == [][\A s \in DOMAIN svc : \A c \in Retires(trace', docker, s) : c.Name \in GeneratedFor(config, s)]_vars

(***************************************************************************)
(* Properties of SpecScale                                                 *)
(***************************************************************************)
\* the canonical names of the replicas of the current options of the services
CurrentNames == UNION {{createContainerName(config, s, i, TRUE) : i \in 0..(config[s].Scale - 1)} : s \in DOMAIN config}

\* C30: the cleanup of the Application never stops or removes a container
\* that has the current canonical name of one of its services, also not one
\* that a service has created or started and whose runner is not in its list
\* yet
C30_CleanupSparesCurrent == [][\A c \in Retires(trace', docker, 0) : c.Name \notin CurrentNames]_vars

(***************************************************************************)
(* Properties of SpecApp: the Links of a new container                     *)
(***************************************************************************)
\* C31: when a Service builds the Links of a new container every direct
\* dependency has a runner in its list, so _getFirstContainerName does not
\* throw and no start task ends in an uncaught error, also when a dependency
\* stops between the dependency check of the task and the creation
C31_LinksResolve == ~crashed

(***************************************************************************)
(* Properties of SpecServer: the generations of the Application            *)
(***************************************************************************)
\* no task of the workQueue of the Server is running
ServerIdle == server.workers = 0 /\ ~server.updating

\* C32: while no config-change task is running, every Application that was
\* launched before and is not the active one of the Server has been marked
\* stopping, also after a launch that failed in the pull of an image
C32_OneGeneration == ServerIdle => \A g \in 1..server.built : g # server.application => \A s \in Range(Services(g)) : svc[s].stopping

(***************************************************************************)
(* Properties of SpecScale: new first, then old                            *)
(***************************************************************************)
\* the canonical names of the replicas of the previous options of service s
PreviousNames(s) == {CreateContainerNameFor(config, s, OldHash, i, TRUE) : i \in 0..(MaxScale - 1)}

\* the containers the engine is asked to stop or to remove in this step
RetiredBy(tr, dk) == {c \in dk : \E i \in 1..Len(tr) : tr[i].e = "issue" /\ tr[i].op \in {"stop", "remove"} /\ tr[i].ref \in {ById(c.Id), ByName(c.Name)}}

\* C33: for a service without hard deploy the daemon stops or removes no
\* container of the previous options before every one of the Scale replicas
\* of the current options is running
C33_NewFirstThenOld ==
  [][\A s \in DOMAIN svc : ~config[s].HardDeploy =>
       \A c \in RetiredBy(trace', docker) : c.Name \in PreviousNames(s) => AllReplicasRunning(s)]_vars

(***************************************************************************)
(* Properties of SpecSelect                                                *)
(***************************************************************************)
\* text occurs in name at position i
OccursAt(name, text, i) == i + Len(text) - 1 <= Len(name) /\ \A j \in 1..Len(text) : name[i + j - 1] = text[j]

Occurs(name, text) == \E i \in 1..Len(name) : OccursAt(name, text, i)

\* the first name the daemon lists for the entry
FirstName == <<"/">> \o app.containerInfo.Name

\* C34: _stopOldContainers(false) selects no container whose name contains
\* the current hash prefix of the service, and with either force it selects
\* only containers whose first name contains the prefix of the service and
\* the postfix and has at most one slash
C34_Selection ==
  (app.pc = "filtered" /\ app.old) =>
    /\ Occurs(FirstName, <<"e", "_">>)
    /\ Occurs(FirstName, <<"_", "k", "i", "r">>)
    /\ Cardinality({i \in 1..Len(FirstName) : FirstName[i] = "/"}) <= 1
    /\ (~app.force => ~Occurs(FirstName, <<"e", "_", "a", "1", "_", "_">>))

\* a container of the previous options was selected without force
C34_Witness == app.pc = "filtered" /\ app.old /\ ~app.force /\ Occurs(FirstName, <<"e", "_", "0", "f", "_", "_">>)

(***************************************************************************)
(* Properties of SpecDetach: the runners Service.stop has let go           *)
(***************************************************************************)
\* Service.stop has marked runner r and dropped it from the list
Detached(r) == runners[r].stopping /\ r \notin Range(svc[runners[r].svc].containers)

\* runner r emits started or stopped in this step
RunnerEmits(tr, r) == \E i \in 1..Len(tr) : tr[i].e = "emit" /\ tr[i].kind = "container" /\ tr[i].src = r

\* the step leaves the failure count and the workQueue of service s alone and
\* has no event of s
ServiceUntouched(s) ==
  /\ svc'[s].recentFailures = svc[s].recentFailures
  /\ svc'[s].queue = svc[s].queue
  /\ \A ev \in {"started", "allStarted", "stopped"} : ~ServiceEmits(trace', s, ev)

\* C35: a runner that Service.stop has marked stopping and dropped from the
\* list does not change its Service any more: a tick that was in flight
\* changes no recentFailures, makes the Service emit neither started nor
\* allStarted nor stopped, and starts no restart
C35_DetachedIsSilent == [][\A r \in DOMAIN runners : (Detached(r) /\ RunnerEmits(trace', r)) => ServiceUntouched(runners[r].svc)]_vars

(***************************************************************************)
(* Properties of SpecApp: the events of a Service                          *)
(***************************************************************************)
\* the started and stopped events of service s in a step, in their order
ServiceEvents(tr, s) == SelectSeq(tr, LAMBDA x : x.e = "emit" /\ x.kind = "service" /\ x.src = s /\ x.ev \in {"started", "stopped"})

\* the event before the i-th of a step; a Service that has emitted nothing
\* is taken as stopped
EventBefore(last, events, i) == IF i > 1 THEN events[i - 1].ev ELSE IF last = "none" THEN "stopped" ELSE last

\* C36: the started and stopped events of a Service alternate and begin with
\* started: no stopped without a started since the stopped before, no two
\* started without a stopped in between
C36_EventsAlternate ==
  [][\A s \in DOMAIN svc : \A i \in 1..Len(ServiceEvents(trace', s)) :
       ServiceEvents(trace', s)[i].ev # EventBefore(svc[s].emitted, ServiceEvents(trace', s), i)]_vars

(***************************************************************************)
(* Properties of SpecLive                                                  *)
(***************************************************************************)
\* Application.isUp() holds and every replica of every service is running
AllUp == Application_isUp(Heap, 1) /\ \A s \in DOMAIN svc : AllReplicasRunning(s)

RunnersNamed == DOMAIN runners \subseteq 1..(MaxScale + 1)

(***************************************************************************)
(* Properties of SpecRunner: an engine error in the inspect of a tick      *)
(***************************************************************************)
\* the inspect of the tick of runner r is answered with an error other than
\* noSuchContainer in this step
TickInspectFails(r) ==
  /\ dq # <<>> /\ dq[1].k = [t |-> "tickInspect", r |-> r]
  /\ \E i \in 1..Len(trace') : trace'[i].e = "exec" /\ trace'[i].op = "inspect" /\ trace'[i].err = ErrOther

\* C38: an engine error other than noSuchContainer in the inspect of a tick
\* is transient: the runner waits for its next tick, emits no stopped, and
\* no container is stopped, removed or created because of it
C38_InspectErrorIsTransient ==
  [][\A r \in DOMAIN runners : TickInspectFails(r) =>
       /\ ~RunnerEmits(trace', r)
       /\ r \in DOMAIN runners' /\ runners'[r].pc = "timer"
       /\ ~IssuesAny(trace', {"stop", "remove", "create"})
       /\ svc'[runners[r].svc].queue = svc[runners[r].svc].queue]_vars

(***************************************************************************)
(* Properties of SpecRegister                                              *)
(***************************************************************************)
\* the registration of runner r fails in the events tr
RegistrationFailed(tr, r) == \E i \in 1..Len(tr) : tr[i] = [e |-> "log", msg |-> "registration failed", r |-> r]

\* the events tr hand a stop or a remove of the container ref to the engine
StopsContainer(tr, ref) == \E i \in 1..Len(tr) : tr[i].e = "issue" /\ tr[i].op \in {"stop", "remove"} /\ tr[i].ref = ref

\* C39: a failed registry write in a healthy tick neither stops the container
\* nor ends the watch loop: the runner emits `started` if it had not yet,
\* takes the 15 s interval, waits for its next tick, emits no `stopped`, and
\* no stop or remove of its container goes to the engine.
C39_FailedWriteIsHarmless ==
  [][\A r \in DOMAIN runners : (runners[r].pc = "register" /\ RegistrationFailed(trace', r)) =>
       /\ r \in DOMAIN runners' /\ runners'[r].pc = "timer"
       /\ runners'[r].watchTimeout = WATCH_TIMEOUT
       /\ runners'[r].started /\ ~runners'[r].stopped
       /\ (~runners[r].started => EmitCount(trace', r, "started") = 1)
       /\ EmitCount(trace', r, "stopped") = 0
       /\ ~StopsContainer(trace', runners[r].ref)]_vars

\* a write failed in the first healthy tick of a runner, which emitted started
C39_Witness ==
  \E r \in DOMAIN runners :
    /\ RegistrationFailed(trace, r) /\ EmitCount(trace, r, "started") = 1
    /\ runners[r].pc = "timer" /\ runners[r].watchTimeout = WATCH_TIMEOUT

(***************************************************************************)
(* Properties of SpecHealth                                                *)
(***************************************************************************)
\* the container port of Http probe i has a host port in the inspect payload
HostPortPresent(i) ==
  LET port == IF app.tests[i].Http.Port = "" THEN "80" ELSE app.tests[i].Http.Port
  IN /\ port \in DOMAIN app.data.Ports
     /\ app.data.Ports[port] # <<>> /\ app.data.Ports[port][1].HostPort # ""

\* probe i passes: it is of an unknown kind, or its GET returned 200
ProbePasses(i) == "Http" \notin DOMAIN app.tests[i] \/ (HostPortPresent(i) /\ app.answers[i] = "200")

\* probe i has its outcome: no request was needed, or the request answered
ProbeSettled(i) == "Http" \notin DOMAIN app.tests[i] \/ ~HostPortPresent(i) \/ app.answers[i] \in {"200", "500", "error"}

\* C40: Health.check reports once, and healthy iff every probe passes: an
\* empty list is healthy, an Http probe passes iff its host port is in the
\* inspect payload and the GET returns 200, and a probe of unknown kind passes;
\* the report is there once every probe has its outcome.
C40_HealthAggregate ==
  app.pc = "checking" =>
    /\ app.calls <= 1
    /\ app.calls = 1 => (app.isHealthy <=> \A i \in DOMAIN app.tests : ProbePasses(i))
    /\ (\A i \in DOMAIN app.tests : ProbeSettled(i)) => app.calls = 1
    /\ \A i \in DOMAIN app.tests : app.answers[i] # "none" <=> ("Http" \in DOMAIN app.tests[i] /\ HostPortPresent(i))

\* healthy was reported for an Http probe that returned 200 next to a probe
\* of unknown kind
C40_Witness ==
  /\ app.pc = "checking" /\ app.calls = 1 /\ app.isHealthy
  /\ \E i, j \in DOMAIN app.tests : "Http" \in DOMAIN app.tests[i] /\ app.answers[i] = "200" /\ "Http" \notin DOMAIN app.tests[j]

====
